---------------------------- MODULE Spec2Model ----------------------------
(***************************************************************************)
(* Model of the generate-l10n localization pipeline:                       *)
(*   - mergeJsonStrings and atomicWrite        (src/src/core/utils.ts)     *)
(*   - L10nProcessor.process                   (src/src/core/cli.ts)       *)
(*   - LLM.chooseLanguage / process / amendArb (src/unnamed/part_003)      *)
(*   - the processSelectedFiles command and the tree view's checked files  *)
(*                                             (src/src/extension.ts)      *)
(*                                                                         *)
(* A JavaScript string is a sequence of tokens.  A token is a record       *)
(* [f, t, v]: a literal piece of text (t = "lit", v the piece) or a whole  *)
(* JSON document as written (t = "json", v the document's value in the     *)
(* order written, f its layout).  A JavaScript value is a record [k, v].   *)
(***************************************************************************)
EXTENDS Integers, Sequences, FiniteSets, TLC

(***************************************************************************)
(* JavaScript values                                                       *)
(***************************************************************************)
Str(chars) == [k |-> "str", v |-> chars]
Prim(name) == [k |-> "prim", v |-> <<name>>]
Arr(elems) == [k |-> "arr", v |-> elems]
Obj(pairs) == [k |-> "obj", v |-> pairs]
EmptyObj == Obj(<< >>)

\* Array-index property names, in ascending numeric order.
IndexKeys == <<"0", "1", "2">>

IsIndexKey(key) == \E n \in DOMAIN IndexKeys : IndexKeys[n] = key

IndexNum(key) == CHOOSE n \in DOMAIN IndexKeys : IndexKeys[n] = key

PairKeys(pairs) == {pairs[n][1] : n \in DOMAIN pairs}

HasKey(val, key) == val.k = "obj" /\ key \in PairKeys(val.v)

Get(val, key) == LET n == CHOOSE m \in DOMAIN val.v : val.v[m][1] = key IN val.v[n][2]

KeysOf(val) == IF val.k = "obj" THEN PairKeys(val.v) ELSE {}

\* A flat object: every member is a string.
IsFlat(val) == val.k = "obj" /\ \A n \in DOMAIN val.v : val.v[n][2].k = "str"

\* [[Set]] / CreateDataProperty on an ordinary object: an existing property
\* keeps its place and takes the new value; a new index key goes among the
\* index keys in ascending order, a new string key goes last.
RECURSIVE InsertIndex(_, _, _)
InsertIndex(pairs, key, val) ==
    IF pairs = << >> THEN << <<key, val>> >>
    ELSE IF IsIndexKey(Head(pairs)[1]) /\ IndexNum(Head(pairs)[1]) < IndexNum(key)
         THEN <<Head(pairs)>> \o InsertIndex(Tail(pairs), key, val)
         ELSE << <<key, val>> >> \o pairs

\* Mutant: a property that already exists keeps its old value.
SetProp_keepsFirst(pairs, key, val) ==
    IF key \in PairKeys(pairs) THEN pairs
    ELSE IF IsIndexKey(key) THEN InsertIndex(pairs, key, val)
    ELSE Append(pairs, <<key, val>>)

SetProp(pairs, key, val) ==
    IF key \in PairKeys(pairs)
    THEN [n \in DOMAIN pairs |-> IF pairs[n][1] = key THEN <<key, val>> ELSE pairs[n]]
    ELSE IF IsIndexKey(key) THEN InsertIndex(pairs, key, val)
    ELSE Append(pairs, <<key, val>>)

RECURSIVE SetAll(_, _)
SetAll(pairs, more) ==
    IF more = << >> THEN pairs
    ELSE SetAll(SetProp(pairs, Head(more)[1], Head(more)[2]), Tail(more))

\* The own enumerable properties that object spread copies from a value:
\* an object's members, an array's elements and a string's characters under
\* their indices, nothing for null, numbers and booleans.
OwnProps(val) ==
    CASE val.k = "obj" -> val.v
      [] val.k = "arr" -> [n \in DOMAIN val.v |-> <<IndexKeys[n], val.v[n]>>]
      [] val.k = "str" -> [n \in DOMAIN val.v |-> <<IndexKeys[n], Str(<<val.v[n]>>)>>]
      [] OTHER -> << >>

\* Mutant: only the second operand is copied.
Spread_secondOnly(a, b) == Obj(SetAll(<< >>, OwnProps(b)))

\* { ...a, ...b }
Spread(a, b) == Obj(SetAll(SetAll(<< >>, OwnProps(a)), OwnProps(b)))

(***************************************************************************)
(* Strings, JSON.parse and JSON.stringify                                  *)
(***************************************************************************)
Lit(piece) == [f |-> "", t |-> "lit", v |-> Str(<<piece>>)]
Doc(layout, val) == [f |-> layout, t |-> "json", v |-> val]
WS == Lit(" ")

RECURSIVE TrimLeft(_)
TrimLeft(s) == IF s # << >> /\ Head(s) = WS THEN TrimLeft(Tail(s)) ELSE s

RECURSIVE TrimRight(_)
TrimRight(s) ==
    IF s # << >> /\ s[Len(s)] = WS THEN TrimRight(SubSeq(s, 1, Len(s) - 1)) ELSE s

\* String.prototype.trim
Trim(s) == TrimRight(TrimLeft(s))

\* The value JSON.parse builds from a document as written: members are
\* defined in the order written, so a repeated key keeps its first place and
\* its last value, and index keys come first.
RECURSIVE Parsed(_)
Parsed(val) ==
    CASE val.k = "obj" ->
           Obj(SetAll(<< >>, [n \in DOMAIN val.v |-> <<val.v[n][1], Parsed(val.v[n][2])>>]))
      [] val.k = "arr" -> Arr([n \in DOMAIN val.v |-> Parsed(val.v[n])])
      [] OTHER -> val

\* JSON.parse: white space around the document is allowed; anything else
\* than exactly one document is a SyntaxError (ok = FALSE).
JsonParse(s) ==
    LET body == Trim(s)
    IN IF Len(body) = 1 /\ body[1].t = "json"
       THEN [ok |-> TRUE, val |-> Parsed(body[1].v)]
       ELSE [ok |-> FALSE, val |-> EmptyObj]

\* JSON.stringify(value, null, 2)
JsonStringify(val) == << Doc("indent2", val) >>

(***************************************************************************)
(* mergeJsonStrings                                                        *)
(***************************************************************************)
\* Mutant: the spread in the other order, so that incoming keys win.
mergeJsonStrings_incomingWins(existingJson, newJson) ==
    LET existingData == IF existingJson # << >> THEN JsonParse(existingJson)
                        ELSE [ok |-> TRUE, val |-> EmptyObj]
        newData == IF newJson # << >> THEN JsonParse(newJson)
                   ELSE [ok |-> TRUE, val |-> EmptyObj]
    IN IF existingData.ok /\ newData.ok
       THEN JsonStringify(Spread(existingData.val, newData.val))
       ELSE existingJson

\* Mutant: the catch block returns an empty object instead of existingJson.
mergeJsonStrings_catchReturnsEmpty(existingJson, newJson) ==
    LET existingData == IF existingJson # << >> THEN JsonParse(existingJson)
                        ELSE [ok |-> TRUE, val |-> EmptyObj]
        newData == IF newJson # << >> THEN JsonParse(newJson)
                   ELSE [ok |-> TRUE, val |-> EmptyObj]
    IN IF existingData.ok /\ newData.ok
       THEN JsonStringify(Spread(newData.val, existingData.val))
       ELSE JsonStringify(EmptyObj)

\* Mutant: a key that both objects hold is left out of the result.
mergeJsonStrings_dropsShared(existingJson, newJson) ==
    LET existingData == IF existingJson # << >> THEN JsonParse(existingJson)
                        ELSE [ok |-> TRUE, val |-> EmptyObj]
        newData == IF newJson # << >> THEN JsonParse(newJson)
                   ELSE [ok |-> TRUE, val |-> EmptyObj]
        onlyNew == SelectSeq(OwnProps(newData.val),
                             LAMBDA pr : pr[1] \notin PairKeys(OwnProps(existingData.val)))
        onlyOld == SelectSeq(OwnProps(existingData.val),
                             LAMBDA pr : pr[1] \notin PairKeys(OwnProps(newData.val)))
    IN IF existingData.ok /\ newData.ok
       THEN JsonStringify(Obj(SetAll(SetAll(<< >>, onlyNew), onlyOld)))
       ELSE existingJson

\* Mutant: the catch block returns newJson instead of existingJson.
mergeJsonStrings_catchReturnsNew(existingJson, newJson) ==
    LET existingData == IF existingJson # << >> THEN JsonParse(existingJson)
                        ELSE [ok |-> TRUE, val |-> EmptyObj]
        newData == IF newJson # << >> THEN JsonParse(newJson)
                   ELSE [ok |-> TRUE, val |-> EmptyObj]
    IN IF existingData.ok /\ newData.ok
       THEN JsonStringify(Spread(newData.val, existingData.val))
       ELSE newJson

mergeJsonStrings(existingJson, newJson) ==
    LET existingData == IF existingJson # << >> THEN JsonParse(existingJson)
                        ELSE [ok |-> TRUE, val |-> EmptyObj]
        newData == IF newJson # << >> THEN JsonParse(newJson)
                   ELSE [ok |-> TRUE, val |-> EmptyObj]
    IN IF existingData.ok /\ newData.ok
       THEN JsonStringify(Spread(newData.val, existingData.val))
       ELSE existingJson


(***************************************************************************)
(* Paths and the file system                                               *)
(*                                                                         *)
(* A path is a sequence of pieces ("lib", "/", "app", "_", "en", ".",      *)
(* "arb").  fs maps every existing path to its content, a string.          *)
(***************************************************************************)
VARIABLES
    fs,     \* the file system: path -> content
    fs0,    \* the file system before the run (never changes)
    aw,     \* aw[i]: the atomicWrite call of caller i
    proc,   \* proc[i]: the locals of process() invocation i
    mE, mI, mOut,  \* direct calls of mergeJsonStrings: inputs and results
    vscode  \* the editor: the tree view's checked files, the settings, the workspace

vars == <<fs, fs0, aw, proc, mE, mI, mOut, vscode>>

RECURSIVE SplitOn(_, _)
\* String.prototype.split(sep): the segments between the occurrences of sep.
SplitOn(s, sep) ==
    IF \A n \in DOMAIN s : s[n] # sep THEN <<s>>
    ELSE LET at == CHOOSE n \in DOMAIN s :
                       s[n] = sep /\ \A m \in 1..(n - 1) : s[m] # sep
         IN <<SubSeq(s, 1, at - 1)>> \o SplitOn(SubSeq(s, at + 1, Len(s)), sep)

LastSlash(p) ==
    IF \E n \in DOMAIN p : p[n] = "/"
    THEN CHOOSE n \in DOMAIN p : p[n] = "/" /\ \A m \in (n + 1)..Len(p) : p[m] # "/"
    ELSE 0

\* path.dirname, path.basename, path.join(dir, name)
Dirname(p) == SubSeq(p, 1, LastSlash(p) - 1)
Basename(p) == SubSeq(p, LastSlash(p) + 1, Len(p))
Join(dir, name) == dir \o <<"/">> \o name

Exists(files, p) == p \in DOMAIN files

\* The file system with path p holding content.
WriteAt(files, p, content) ==
    [q \in DOMAIN files \cup {p} |-> IF q = p THEN content ELSE files[q]]

\* fs.rename(from, to): to takes from's content and from is gone.
RenameTo(files, from, to) ==
    [q \in (DOMAIN files \cup {to}) \ {from} |-> IF q = to THEN files[from] ELSE files[q]]

\* What a file holds while fs.writeFile is still writing it.
Truncated == << [f |-> "cut", t |-> "lit", v |-> Str(<< >>)] >>

\* Date.now() is some time from 0 to MaxClock; Stamp renders it in a file name.
MaxClock == 1
Stamp(t) == <<"t0", "t1", "t2", "t3">>[t + 1]

(***************************************************************************)
(* atomicWrite and backupFiles, one step per await.  aw[i] is the call     *)
(* frame of the atomicWrite that caller i has in flight.                   *)
(***************************************************************************)
Callers == {1, 2}

IdleFrame ==
    [at |-> "idle", filePath |-> << >>, content |-> << >>, backup |-> FALSE,
     tmpName |-> << >>, had |-> FALSE, before |-> << >>, copied |-> FALSE]

\* The frame once the call is over.
Over(frame, how) == [frame EXCEPT !.at = how, !.tmpName = << >>]

BackupPath(filePath) == filePath \o <<".", "bak">>

\* Mutant: the content is written straight to the target.
TmpName_inPlace(filePath, now) == filePath

TmpName(filePath, now) ==
    Join(Dirname(filePath), <<".tmp-", Stamp(now), "-">> \o Basename(filePath))

\* atomicWrite(filePath, content, backup) up to its first await.  had and
\* before record what filePath held when the call was made, copied whether
\* fs.copyFile has succeeded.
atomicWrite(files, filePath, content, backup) ==
    [at |-> IF backup THEN "access" ELSE "writeFile",
     filePath |-> filePath, content |-> content, backup |-> backup,
     tmpName |-> << >>,
     had |-> Exists(files, filePath),
     before |-> IF Exists(files, filePath) THEN files[filePath] ELSE << >>,
     copied |-> FALSE]

\* backupFiles: await fs.access(filePath); a missing file throws into the
\* empty catch.
BackupAccess(i) ==
    /\ aw[i].at = "access"
    /\ aw' = [aw EXCEPT ![i].at =
                 IF Exists(fs, aw[i].filePath) THEN "copyFile" ELSE "writeFile"]
    /\ UNCHANGED <<fs, fs0, proc, mE, mI, mOut, vscode>>

\* Mutant: a failure of fs.copyFile is not caught and ends the call.
BackupCopy_failureThrows(i) ==
    /\ aw[i].at = "copyFile"
    /\ \/ /\ Exists(fs, aw[i].filePath)
          /\ fs' = WriteAt(fs, BackupPath(aw[i].filePath), fs[aw[i].filePath])
          /\ aw' = [aw EXCEPT ![i].at = "writeFile", ![i].copied = TRUE]
       \/ /\ UNCHANGED fs
          /\ aw' = [aw EXCEPT ![i] = Over(aw[i], "threw")]
    /\ UNCHANGED <<fs0, proc, mE, mI, mOut, vscode>>

\* Mutant: fs.copyFile reports success without having written the copy.
BackupCopy_copiesNothing(i) ==
    /\ aw[i].at = "copyFile"
    /\ aw' = [aw EXCEPT ![i].at = "writeFile", ![i].copied = TRUE]
    /\ UNCHANGED <<fs, fs0, proc, mE, mI, mOut, vscode>>

\* backupFiles: await fs.copyFile(filePath, backupPath); a failure is
\* swallowed by the empty catch.
BackupCopy(i) ==
    /\ aw[i].at = "copyFile"
    /\ \/ /\ Exists(fs, aw[i].filePath)
          /\ fs' = WriteAt(fs, BackupPath(aw[i].filePath), fs[aw[i].filePath])
          /\ aw' = [aw EXCEPT ![i].at = "writeFile", ![i].copied = TRUE]
       \/ /\ UNCHANGED fs
          /\ aw' = [aw EXCEPT ![i].at = "writeFile"]
    /\ UNCHANGED <<fs0, proc, mE, mI, mOut, vscode>>

\* const tmpName = ...Date.now()...; await fs.writeFile(tmpName, ...) opens
\* and truncates the temp file, or fails.
WriteOpen(i) ==
    /\ aw[i].at = "writeFile"
    /\ \E now \in 0..MaxClock :
          LET tmpName == TmpName(aw[i].filePath, now)
          IN \/ /\ fs' = WriteAt(fs, tmpName, Truncated)
                /\ aw' = [aw EXCEPT ![i].at = "writing", ![i].tmpName = tmpName]
             \/ /\ aw' = [aw EXCEPT ![i] = Over(aw[i], "threw")]
                /\ UNCHANGED fs
    /\ UNCHANGED <<fs0, proc, mE, mI, mOut, vscode>>

\* fs.writeFile completes, or fails leaving the temp file cut short.
WriteFinish(i) ==
    /\ aw[i].at = "writing"
    /\ \/ /\ fs' = WriteAt(fs, aw[i].tmpName, aw[i].content)
          /\ aw' = [aw EXCEPT ![i].at = "rename"]
       \/ /\ aw' = [aw EXCEPT ![i] = Over(aw[i], "threw")]
          /\ UNCHANGED fs
    /\ UNCHANGED <<fs0, proc, mE, mI, mOut, vscode>>

\* Mutant: the rename fails when the target is no longer what it was when
\* atomicWrite was called.
Rename_unlessChanged(i) ==
    /\ aw[i].at = "rename"
    /\ \/ /\ Exists(fs, aw[i].tmpName)
          /\ Exists(fs, aw[i].filePath) = aw[i].had
          /\ aw[i].had => fs[aw[i].filePath] = aw[i].before
          /\ fs' = RenameTo(fs, aw[i].tmpName, aw[i].filePath)
          /\ aw' = [aw EXCEPT ![i] = Over(aw[i], "returned")]
       \/ /\ aw' = [aw EXCEPT ![i] = Over(aw[i], "threw")]
          /\ UNCHANGED fs
    /\ UNCHANGED <<fs0, proc, mE, mI, mOut, vscode>>

\* Mutant: atomicWrite returns without having renamed the temp file.
Rename_skipped(i) ==
    /\ aw[i].at = "rename"
    /\ aw' = [aw EXCEPT ![i] = Over(aw[i], "returned")]
    /\ UNCHANGED <<fs, fs0, proc, mE, mI, mOut, vscode>>

\* await fs.rename(tmpName, filePath)
Rename(i) ==
    /\ aw[i].at = "rename"
    /\ \/ /\ Exists(fs, aw[i].tmpName)
          /\ fs' = RenameTo(fs, aw[i].tmpName, aw[i].filePath)
          /\ aw' = [aw EXCEPT ![i] = Over(aw[i], "returned")]
       \/ /\ aw' = [aw EXCEPT ![i] = Over(aw[i], "threw")]
          /\ UNCHANGED fs
    /\ UNCHANGED <<fs0, proc, mE, mI, mOut, vscode>>

(***************************************************************************)
(* Bounded inputs                                                          *)
(***************************************************************************)
Keys == {"greeting", "farewell", "0"}
StrVals == {Str(<<"a">>), Str(<<"b">>)}
Layouts == {"compact", "indent2"}

\* The longest object written out in an input.
MaxPairs == 2

SeqsUpTo(S, n) == UNION {[1..m -> S] : m \in 0..n}

\* Flat objects as written: any keys in any order, repeated keys included.
FlatWritten == {Obj(ps) : ps \in SeqsUpTo(Keys \X StrVals, MaxPairs)}

\* Valid JSON that is not a flat object.
NonFlatWritten ==
    { Arr(<<Str(<<"a">>), Str(<<"b">>)>>),
      Str(<<"a", "b">>),
      Prim("1"),
      Prim("null"),
      Obj(<< <<"greeting", Obj(<< <<"farewell", Str(<<"a">>)>> >>)>> >>) }

NotJson == <<Lit("not json")>>

MergeTexts ==
    {<< >>, NotJson}
      \cup {<<Doc(l, o)>> : l \in Layouts, o \in FlatWritten}
      \cup {<<Doc("compact", o)>> : o \in NonFlatWritten}
      \cup {<<WS, Doc("compact", Obj(<< <<"greeting", Str(<<"a">>)>> >>)), WS>>}

(***************************************************************************)
(* A call of mergeJsonStrings on inputs mE (existing) and mI (incoming)    *)
(***************************************************************************)
NoCall == [done |-> FALSE, out |-> << >>, again |-> FALSE, same |-> << >>, twice |-> << >>]

NoMerge == mE = << >> /\ mI = << >> /\ mOut = NoCall

\* out = mergeJsonStrings(mE, mI)
Merge ==
    /\ ~mOut.done
    /\ mOut' = [mOut EXCEPT !.done = TRUE, !.out = mergeJsonStrings(mE, mI)]
    /\ UNCHANGED <<mE, mI, fs, fs0, aw, proc, vscode>>

\* Two more calls: same = mergeJsonStrings(mE, mI) once more, and
\* twice = mergeJsonStrings(out, mI), the first result merged again with mI.
MergeAgain ==
    /\ mOut.done /\ ~mOut.again
    /\ mOut' = [mOut EXCEPT !.again = TRUE,
                             !.same = mergeJsonStrings(mE, mI),
                             !.twice = mergeJsonStrings(mOut.out, mI)]
    /\ UNCHANGED <<mE, mI, fs, fs0, aw, proc, vscode>>

(***************************************************************************)
(* The model gateway: what LLM.chooseLanguage, LLM.process and             *)
(* LLM.amendArb make of the text the backend returned.                     *)
(***************************************************************************)
MARK == Lit("REPONSE FINALE :")
DART == Lit("<dart>")
DARTEND == Lit("</dart>")
JSONTAG == Lit("<JSON>")
JSONEND == Lit("</JSON>")

\* _invoke: (response?.content ?? '').trim()
Invoke(raw) == Trim(raw)

\* The prompts folder next to the compiled module, and the two template
\* files of an operation.
PromptsDir == <<"dist", "/", "prompts">>
SysPath(name) == Join(PromptsDir, <<name, ".", "sys">>)
HumPath(name) == Join(PromptsDir, <<name, ".", "hum">>)

\* Mutant: a template that cannot be read is taken as empty.
loadPrompt_neverThrows(files, name) == [threw |-> FALSE]

\* _loadPrompt(name): both files are read; if either read fails it throws.
loadPrompt(files, name) ==
    [threw |-> ~(Exists(files, SysPath(name)) /\ Exists(files, HumPath(name)))]

llmChooseLanguage(raw) ==
    LET parts == SplitOn(Invoke(raw), MARK)
    IN IF Len(parts) < 2 THEN [threw |-> TRUE, ret |-> << >>]
       ELSE [threw |-> FALSE, ret |-> Trim(parts[2])]

llmProcess(raw) ==
    LET parts == SplitOn(Invoke(raw), MARK)
    IN IF Len(parts) < 2 THEN [threw |-> TRUE, ret |-> << >>]
       ELSE [threw |-> FALSE, ret |-> Trim(parts[2])]

llmAmendArb(raw) ==
    LET parts == SplitOn(Invoke(raw), MARK)
    IN IF Len(parts) < 2 THEN [threw |-> TRUE, ret |-> << >>]
       ELSE [threw |-> FALSE, ret |-> Trim(parts[Len(parts)])]

(***************************************************************************)
(* L10nProcessor.process: pure parts                                       *)
(***************************************************************************)
ArbsFolder == <<"lib", "/", "l10n">>
DirEntry == <<Lit("<dir>")>>

\* opts.files
Files ==
    << <<"lib", "/", "home", ".", "dart">>,
       <<"lib", "/", "cart", ".", "dart">>,
       <<"lib", "/", "menu", ".", "dart">> >>

\* f.startsWith("app_") && f.endsWith(".arb")
IsArbName(name) ==
    /\ Len(name) >= 2 /\ name[1] = "app" /\ name[2] = "_"
    /\ name[Len(name) - 1] = "." /\ name[Len(name)] = "arb"

\* path.basename(f).split("_")[1].split(".")[0]
LangOf(f) == SplitOn(SplitOn(Basename(f), "_")[2], ".")[1]

\* The pieces the test /[a-zA-Z0-9_-]/ rejects.
NotTagPieces == {" ", ".", "..", "/", ","}

\* Mutant: nothing is filtered out.
LangTag_unfiltered(langTagRaw) == [n \in DOMAIN langTagRaw |-> langTagRaw[n].v.v[1]]

\* Array.from(langTagRaw).filter((c) => /[a-zA-Z0-9_-]/.test(c)).join("")
LangTag(langTagRaw) ==
    LET kept == SelectSeq(langTagRaw, LAMBDA c : c.v.v[1] \notin NotTagPieces)
    IN [n \in DOMAIN kept |-> kept[n].v.v[1]]

TargetArbPath(langTag) == Join(ArbsFolder, <<"app", "_">> \o langTag \o <<".", "arb">>)

\* The names fs.readdir(dir) returns.
DirNames(files, dir) ==
    {Basename(q) : q \in {r \in DOMAIN files : r # dir /\ Dirname(r) = dir}}

Perms(S) == {q \in [1..Cardinality(S) -> S] : \A a, b \in DOMAIN q : a # b => q[a] # q[b]}

\* Mutant: the file is not read and the fallback is always used.
ReadOr_neverReads(files, path, fallback) == fallback

\* await fs.readFile(path) inside try { } catch { fallback }
ReadOr(files, path, fallback) == IF Exists(files, path) THEN files[path] ELSE fallback

EmptyJson == <<Doc("compact", EmptyObj)>>

\* The clean-up and split of the extract response (lines 164-173).
Striped(finalResponse) ==
    SelectSeq(Trim(finalResponse), LAMBDA c : c \notin {JSONTAG, JSONEND, DARTEND})

ArbLines(finalResponse) == Trim(SplitOn(Striped(finalResponse), DART)[1])

UpdatedFlutter(finalResponse) ==
    LET parts == SplitOn(Striped(finalResponse), DART)
    IN IF Len(parts) >= 2 THEN Trim(parts[2]) ELSE << >>

\* JSON.parse(arbLines || "{}")
ParsedArbLines(finalResponse) ==
    IF ArbLines(finalResponse) = << >> THEN [ok |-> TRUE, val |-> EmptyObj]
    ELSE JsonParse(ArbLines(finalResponse))

\* Mutant: the source language's bundle is not filtered out.
OtherArbFiles_all(arbFiles, langTag) == arbFiles

\* arbFiles.filter((f) => f !== targetArbPath)
OtherArbFiles(arbFiles, langTag) == SelectSeq(arbFiles, LAMBDA f : f # TargetArbPath(langTag))

(***************************************************************************)
(* What the backend may answer                                             *)
(***************************************************************************)
A == Str(<<"a">>)
B == Str(<<"b">>)
Talk == Lit("reasoning")
NewSource == Lit("rewritten source")

ChooseReplies ==
    { <<Talk>>,
      <<Talk, MARK, WS, Lit("en"), WS>>,
      <<MARK, Lit("fr")>>,
      <<MARK, Lit("es")>>,
      <<MARK, Lit(".."), Lit("/"), Lit("en"), Lit(".")>>,
      <<MARK, Lit("fr"), MARK, Lit("en")>> }

ExtractedObjs ==
    { Obj(<< <<"farewell", A>> >>),
      Obj(<< <<"farewell", B>> >>),
      Obj(<< <<"greeting", B>> >>) }

KeysSegments ==
    { << >>, NotJson }
      \cup { <<JSONTAG, Doc("indent2", o), JSONEND>> : o \in ExtractedObjs }

DartSegments == { << >>, <<DART>>, <<DART, WS, NewSource, DARTEND>> }

ProcessReplies ==
    { <<Talk>>,
      <<MARK, Doc("compact", Obj(<< <<"greeting", B>> >>)), MARK,
        Doc("compact", Obj(<< <<"farewell", B>> >>)), DART, NewSource>> }
      \cup { <<Talk, MARK, WS>> \o ks \o ds : ks \in KeysSegments, ds \in DartSegments }

AmendReplies ==
    { <<Talk>>,
      <<Talk, MARK, NotJson[1]>>,
      <<MARK, Doc("compact", Obj(<< <<"greeting", B>>, <<"farewell", B>> >>))>>,
      <<MARK, Doc("compact", Obj(<< <<"greeting", A>> >>)), MARK,
        Doc("compact", Obj(<< <<"farewell", A>> >>))>> }

Replies(at) ==
    CASE at = "chooseLanguage" -> ChooseReplies
      [] at = "process" -> ProcessReplies
      [] at = "amendArb" -> AmendReplies
      [] OTHER -> {}

NoReply == [got |-> FALSE, raw |-> << >>]

(***************************************************************************)
(* L10nProcessor.process, one action per await                             *)
(***************************************************************************)
\* The processSelectedFiles command that called process(): where it is, the
\* texts it has sent to the terminal and the messages it has shown.
\* checked, backup and packageName are the handler's constants of those
\* names, flutterProjectName what getFlutterProjectName() returned ("" for
\* null).
NoCommand ==
    [at |-> "none", terminal |-> << >>, messages |-> << >>, checked |-> << >>,
     backup |-> FALSE, packageName |-> "", flutterProjectName |-> ""]

NotStarted ==
    [at |-> "off", backup |-> FALSE, arbFiles |-> << >>, langTag |-> << >>,
     fullArbLines |-> EmptyObj, arbContent |-> EmptyJson, n |-> 1,
     updatedFlutter |-> << >>, t |-> 1, translated |-> << >>, reply |-> NoReply,
     processArgs |-> << >>, amendArbArgs |-> << >>, llmCalls |-> << >>, error |-> "",
     extractions |-> << >>, packageName |-> "", command |-> NoCommand]

\* llmCalls lists the calls of this.llm made so far: the operation and the
\* file it is about.
LlmCall(op, file) == [op |-> op, file |-> file]

\* extractions lists what each accepted extract response brought: the input
\* file, the parsed keys (newArbLines) and the rewritten source.
Extraction(file, keys, source) == [file |-> file, keys |-> keys, source |-> source]

\* new L10nProcessor({ ..., files: checked, packageName, backup }) and the
\* call of process(), up to its first await.
Construct(command) ==
    [NotStarted EXCEPT !.at = "accessFolder", !.backup = command.backup,
                       !.packageName = command.packageName,
                       !.command = [command EXCEPT !.at = "process"]]

\* The command was run with every input file checked and the package name
\* set.
Started(backup) ==
    Construct([NoCommand EXCEPT !.checked = Files, !.backup = backup,
                                !.packageName = "shop_app"])

Throw(i, what) == [proc EXCEPT ![i].at = "failed", ![i].error = what]

\* The operation in flight has loaded its templates and invoked the backend,
\* which answers.
BackendReplies(i) ==
    /\ ~proc[i].reply.got
    /\ ~loadPrompt(fs, proc[i].at).threw
    /\ \E raw \in Replies(proc[i].at) :
          proc' = [proc EXCEPT ![i].reply = [got |-> TRUE, raw |-> raw]]
    /\ UNCHANGED <<fs, fs0, aw, mE, mI, mOut, vscode>>

\* The operation in flight cannot load its templates: it throws, and nothing
\* in process() catches it.
LoadPromptThrows(i) ==
    /\ proc[i].at \in {"chooseLanguage", "process", "amendArb"}
    /\ ~proc[i].reply.got
    /\ loadPrompt(fs, proc[i].at).threw
    /\ proc' = Throw(i, "Missing prompt")
    /\ UNCHANGED <<fs, fs0, aw, mE, mI, mOut, vscode>>

\* lines 95-100: await fs.access(resolvedArbsFolder)
AccessFolder(i) ==
    /\ proc[i].at = "accessFolder"
    /\ proc' = IF Exists(fs, ArbsFolder) THEN [proc EXCEPT ![i].at = "readdir"]
               ELSE Throw(i, "The folder does not exist")
    /\ UNCHANGED <<fs, fs0, aw, mE, mI, mOut, vscode>>

\* lines 103-109: readdir in whatever order the directory gives, filter, map
Readdir(i) ==
    /\ proc[i].at = "readdir"
    /\ \E names \in Perms({f \in DirNames(fs, ArbsFolder) : IsArbName(f)}) :
          proc' = [proc EXCEPT ![i].at = "accessFirst",
                               ![i].arbFiles = [m \in DOMAIN names |-> Join(ArbsFolder, names[m])]]
    /\ UNCHANGED <<fs, fs0, aw, mE, mI, mOut, vscode>>

\* Mutant: the first file is not checked.
AccessFirst_notChecked(i) ==
    /\ proc[i].at = "accessFirst"
    /\ proc' = [proc EXCEPT ![i].at = "readFirst"]
    /\ UNCHANGED <<fs, fs0, aw, mE, mI, mOut, vscode>>

\* lines 113-118: await fs.access(firstFlutterFile)
AccessFirst(i) ==
    /\ proc[i].at = "accessFirst"
    /\ proc' = IF Exists(fs, Files[1]) THEN [proc EXCEPT ![i].at = "readFirst"]
               ELSE Throw(i, "Flutter file not found")
    /\ UNCHANGED <<fs, fs0, aw, mE, mI, mOut, vscode>>

\* lines 121-123: read the first file and call llm.chooseLanguage
ReadFirst(i) ==
    /\ proc[i].at = "readFirst"
    /\ proc' = IF Exists(fs, Files[1])
               THEN [proc EXCEPT ![i].at = "chooseLanguage", ![i].reply = NoReply,
                                 ![i].llmCalls = Append(proc[i].llmCalls,
                                                        LlmCall("chooseLanguage", Files[1]))]
               ELSE Throw(i, "ENOENT")
    /\ UNCHANGED <<fs, fs0, aw, mE, mI, mOut, vscode>>

\* lines 123-130: chooseLanguage returns or throws; the tag is sanitized
ChooseLanguage(i) ==
    /\ proc[i].at = "chooseLanguage"
    /\ proc[i].reply.got
    /\ LET r == llmChooseLanguage(proc[i].reply.raw)
       IN proc' = IF r.threw THEN Throw(i, "LLM response not valid")
                  ELSE [proc EXCEPT ![i].at = "readTarget", ![i].langTag = LangTag(r.ret)]
    /\ UNCHANGED <<fs, fs0, aw, mE, mI, mOut, vscode>>

\* Mutant: a target bundle that cannot be read ends the run.
ReadTarget_missingThrows(i) ==
    /\ proc[i].at = "readTarget"
    /\ proc' = IF Exists(fs, TargetArbPath(proc[i].langTag))
               THEN [proc EXCEPT ![i].at = "access", ![i].n = 1,
                                 ![i].arbContent = fs[TargetArbPath(proc[i].langTag)]]
               ELSE Throw(i, "ENOENT")
    /\ UNCHANGED <<fs, fs0, aw, mE, mI, mOut, vscode>>

\* lines 132-140: arbContent = target bundle, or "{}" when it cannot be read
ReadTarget(i) ==
    /\ proc[i].at = "readTarget"
    /\ proc' = [proc EXCEPT ![i].at = "access", ![i].n = 1,
                            ![i].arbContent =
                                ReadOr(fs, TargetArbPath(proc[i].langTag), EmptyJson)]
    /\ UNCHANGED <<fs, fs0, aw, mE, mI, mOut, vscode>>

\* lines 208-215: the arguments of the llm.amendArb call for the t-th other
\* bundle
AmendArbCall(p, t) ==
    LET arbFile == OtherArbFiles(p.arbFiles, p.langTag)[t]
    IN [arbFile |-> arbFile, inputJson |-> JsonStringify(p.fullArbLines),
        langTag |-> LangOf(arbFile)]

\* Mutant: the translations start as soon as one file is done.
AfterFile_translatesEarly(p) ==
    IF OtherArbFiles(p.arbFiles, p.langTag) = << >>
    THEN [p EXCEPT !.at = "done", !.n = p.n + 1]
    ELSE [p EXCEPT !.at = "amendArb", !.n = p.n + 1, !.t = 1, !.reply = NoReply,
                   !.amendArbArgs = Append(p.amendArbArgs, AmendArbCall(p, 1)),
                   !.llmCalls = Append(p.llmCalls,
                                       LlmCall("amendArb", AmendArbCall(p, 1).arbFile))]

\* The for loop moves to the next file (line 143), or to the translations
\* (lines 200-215, up to the first llm.amendArb call), or process() returns.
AfterFile(p) ==
    IF p.n < Len(Files) THEN [p EXCEPT !.at = "access", !.n = p.n + 1]
    ELSE IF OtherArbFiles(p.arbFiles, p.langTag) = << >>
         THEN [p EXCEPT !.at = "done", !.n = p.n + 1]
         ELSE [p EXCEPT !.at = "amendArb", !.n = p.n + 1, !.t = 1, !.reply = NoReply,
                        !.amendArbArgs = Append(p.amendArbArgs, AmendArbCall(p, 1)),
                        !.llmCalls = Append(p.llmCalls,
                                            LlmCall("amendArb", AmendArbCall(p, 1).arbFile))]

\* Mutant: a missing file ends the run.
Access_missingThrows(i) ==
    /\ proc[i].at = "access"
    /\ proc' = IF Exists(fs, Files[proc[i].n])
               THEN [proc EXCEPT ![i].at = "readFile"]
               ELSE Throw(i, "Flutter file not found")
    /\ UNCHANGED <<fs, fs0, aw, mE, mI, mOut, vscode>>

\* lines 144-150: a missing file is skipped
Access(i) ==
    /\ proc[i].at = "access"
    /\ proc' = IF Exists(fs, Files[proc[i].n])
               THEN [proc EXCEPT ![i].at = "readFile"]
               ELSE [proc EXCEPT ![i] = AfterFile(proc[i])]
    /\ UNCHANGED <<fs, fs0, aw, mE, mI, mOut, vscode>>

\* lines 153-161: read the file and call llm.process
ReadFile(i) ==
    /\ proc[i].at = "readFile"
    /\ proc' = IF Exists(fs, Files[proc[i].n])
               THEN [proc EXCEPT ![i].at = "process", ![i].reply = NoReply,
                                 ![i].processArgs =
                                     [flutterFile |-> fs[Files[proc[i].n]],
                                      arbFile |-> proc[i].arbContent,
                                      lang |-> proc[i].langTag],
                                 ![i].llmCalls = Append(proc[i].llmCalls,
                                                        LlmCall("process", Files[proc[i].n]))]
               ELSE Throw(i, "ENOENT")
    /\ UNCHANGED <<fs, fs0, aw, mE, mI, mOut, vscode>>

\* lines 156-182: llm.process returns or throws; strip, split, JSON.parse
\* (which may throw) and the merge into fullArbLines
Process(i) ==
    /\ proc[i].at = "process"
    /\ proc[i].reply.got
    /\ LET r == llmProcess(proc[i].reply.raw)
           parsed == ParsedArbLines(r.ret)
       IN proc' =
            IF r.threw THEN Throw(i, "Response shape not valid")
            ELSE IF ~parsed.ok THEN Throw(i, "SyntaxError")
            ELSE [proc EXCEPT ![i].at = "readExisting",
                              ![i].fullArbLines = Spread(proc[i].fullArbLines, parsed.val),
                              ![i].updatedFlutter = UpdatedFlutter(r.ret),
                              ![i].extractions =
                                  Append(proc[i].extractions,
                                         Extraction(Files[proc[i].n], parsed.val,
                                                    UpdatedFlutter(r.ret)))]
    /\ UNCHANGED <<fs, fs0, aw, mE, mI, mOut, vscode>>

\* Mutant: the merge is written to the first bundle readdir listed.
ReadExisting_writesFirstListed(i) ==
    /\ proc[i].at = "readExisting"
    /\ LET targetArbPath == IF proc[i].arbFiles # << >> THEN proc[i].arbFiles[1]
                            ELSE TargetArbPath(proc[i].langTag)
           existing == ReadOr(fs, targetArbPath, EmptyJson)
           newArbContent == mergeJsonStrings(existing, JsonStringify(proc[i].fullArbLines))
       IN aw' = [aw EXCEPT ![i] = atomicWrite(fs, targetArbPath, newArbContent, proc[i].backup)]
    /\ proc' = [proc EXCEPT ![i].at = "writeArb"]
    /\ UNCHANGED <<fs, fs0, mE, mI, mOut, vscode>>

\* Mutant: the bundle is written back as it was read, without the keys.
ReadExisting_writesWhatItRead(i) ==
    /\ proc[i].at = "readExisting"
    /\ LET targetArbPath == TargetArbPath(proc[i].langTag)
           existing == ReadOr(fs, targetArbPath, EmptyJson)
       IN aw' = [aw EXCEPT ![i] = atomicWrite(fs, targetArbPath, existing, proc[i].backup)]
    /\ proc' = [proc EXCEPT ![i].at = "writeArb"]
    /\ UNCHANGED <<fs, fs0, mE, mI, mOut, vscode>>

\* lines 183-190: re-read the bundle, merge, call atomicWrite
ReadExisting(i) ==
    /\ proc[i].at = "readExisting"
    /\ LET targetArbPath == TargetArbPath(proc[i].langTag)
           existing == ReadOr(fs, targetArbPath, EmptyJson)
           newArbContent == mergeJsonStrings(existing, JsonStringify(proc[i].fullArbLines))
       IN aw' = [aw EXCEPT ![i] = atomicWrite(fs, targetArbPath, newArbContent, proc[i].backup)]
    /\ proc' = [proc EXCEPT ![i].at = "writeArb"]
    /\ UNCHANGED <<fs, fs0, mE, mI, mOut, vscode>>

\* Mutant: the input file is never overwritten.
AfterWriteArb_neverRewrites(i) ==
    /\ proc[i].at = "writeArb"
    /\ aw[i].at = "returned"
    /\ aw' = [aw EXCEPT ![i] = IdleFrame]
    /\ proc' = [proc EXCEPT ![i] = AfterFile(proc[i])]
    /\ UNCHANGED <<fs, fs0, mE, mI, mOut, vscode>>

\* lines 190-196: the bundle is written; overwrite the file if the model
\* returned updated source
AfterWriteArb(i) ==
    /\ proc[i].at = "writeArb"
    /\ aw[i].at = "returned"
    /\ IF proc[i].updatedFlutter # << >>
       THEN /\ aw' = [aw EXCEPT ![i] = atomicWrite(fs, Files[proc[i].n],
                                                   proc[i].updatedFlutter, proc[i].backup)]
            /\ proc' = [proc EXCEPT ![i].at = "writeFlutter"]
       ELSE /\ aw' = [aw EXCEPT ![i] = IdleFrame]
            /\ proc' = [proc EXCEPT ![i] = AfterFile(proc[i])]
    /\ UNCHANGED <<fs, fs0, mE, mI, mOut, vscode>>

\* lines 195-197: the file is written
AfterWriteFlutter(i) ==
    /\ proc[i].at = "writeFlutter"
    /\ aw[i].at = "returned"
    /\ aw' = [aw EXCEPT ![i] = IdleFrame]
    /\ proc' = [proc EXCEPT ![i] = AfterFile(proc[i])]
    /\ UNCHANGED <<fs, fs0, mE, mI, mOut, vscode>>

\* lines 212-215: llm.amendArb returns or throws
AmendArb(i) ==
    /\ proc[i].at = "amendArb"
    /\ proc[i].reply.got
    /\ LET r == llmAmendArb(proc[i].reply.raw)
       IN proc' = IF r.threw THEN Throw(i, "LLM response not valid")
                  ELSE [proc EXCEPT ![i].at = "readOther", ![i].translated = r.ret]
    /\ UNCHANGED <<fs, fs0, aw, mE, mI, mOut, vscode>>

\* lines 217-226: read the language's bundle, merge, call atomicWrite
ReadOther(i) ==
    /\ proc[i].at = "readOther"
    /\ LET arbFile == OtherArbFiles(proc[i].arbFiles, proc[i].langTag)[proc[i].t]
           existing == ReadOr(fs, arbFile, EmptyJson)
           newArbContent == mergeJsonStrings(existing, proc[i].translated)
       IN aw' = [aw EXCEPT ![i] = atomicWrite(fs, arbFile, newArbContent, proc[i].backup)]
    /\ proc' = [proc EXCEPT ![i].at = "writeOther"]
    /\ UNCHANGED <<fs, fs0, mE, mI, mOut, vscode>>

\* lines 207-228: the bundle is written; next language, or process() returns
AfterWriteOther(i) ==
    /\ proc[i].at = "writeOther"
    /\ aw[i].at = "returned"
    /\ aw' = [aw EXCEPT ![i] = IdleFrame]
    /\ proc' = IF proc[i].t < Len(OtherArbFiles(proc[i].arbFiles, proc[i].langTag))
               THEN [proc EXCEPT ![i].at = "amendArb", ![i].t = proc[i].t + 1,
                                 ![i].reply = NoReply,
                                 ![i].amendArbArgs =
                                     Append(proc[i].amendArbArgs,
                                            AmendArbCall(proc[i], proc[i].t + 1)),
                                 ![i].llmCalls =
                                     Append(proc[i].llmCalls,
                                            LlmCall("amendArb",
                                                    AmendArbCall(proc[i], proc[i].t + 1).arbFile))]
               ELSE [proc EXCEPT ![i].at = "done", ![i].t = proc[i].t + 1]
    /\ UNCHANGED <<fs, fs0, mE, mI, mOut, vscode>>

\* An atomicWrite that throws is caught nowhere in process().
WriteThrew(i) ==
    /\ proc[i].at \in {"writeArb", "writeFlutter", "writeOther"}
    /\ aw[i].at = "threw"
    /\ proc' = Throw(i, "write failed")
    /\ UNCHANGED <<fs, fs0, aw, mE, mI, mOut, vscode>>

(***************************************************************************)
(* The processSelectedFiles command around process() (extension.ts)        *)
(***************************************************************************)
\* MyTreeDataProvider.toggleCheck on the checked files, a Set kept in
\* insertion order.
toggleCheck(checkedFiles, path) ==
    IF \E n \in DOMAIN checkedFiles : checkedFiles[n] = path
    THEN SelectSeq(checkedFiles, LAMBDA f : f # path)
    ELSE Append(checkedFiles, path)

\* checked.forEach(filePath => treeDataProvider.toggleCheck(fileNode))
RECURSIVE ToggleEach(_, _)
ToggleEach(checkedFiles, checked) ==
    IF checked = << >> THEN checkedFiles
    ELSE ToggleEach(toggleCheck(checkedFiles, Head(checked)), Tail(checked))

\* pubspec.yaml in the workspace root, and what yaml.parse makes of it: the
\* mapping of a "key: value" line, or an error.
PubspecPath == <<"pubspec", ".", "yaml">>
YamlKey(token) ==
    CASE token = Lit("name:") -> "name"
      [] token = Lit("version:") -> "version"
      [] OTHER -> ""

YamlParse(content) ==
    IF Len(content) = 3 /\ YamlKey(content[1]) # "" /\ content[2] = WS
    THEN [ok |-> TRUE, val |-> Obj(<< <<YamlKey(content[1]), content[3].v>> >>)]
    ELSE [ok |-> FALSE, val |-> EmptyObj]

\* getFlutterProjectName(): the name in pubspec.yaml, or "" for null.
getFlutterProjectName(files, workspaceFolders) ==
    IF ~workspaceFolders \/ ~Exists(files, PubspecPath) THEN ""
    ELSE LET parsed == YamlParse(files[PubspecPath])
         IN IF parsed.ok /\ HasKey(parsed.val, "name") THEN Get(parsed.val, "name").v[1]
            ELSE ""

Shows(command, kind, text) ==
    [command EXCEPT !.messages = Append(command.messages, [kind |-> kind, text |-> text])]

\* lines 119-151: without a workspace folder the command returns; otherwise
\* it builds the processor and awaits process().
Launch(command) ==
    IF ~vscode.workspaceFolders
    THEN [NotStarted EXCEPT !.command =
             Shows([command EXCEPT !.at = "returned"], "error", "No workspace folder is open.")]
    ELSE Construct(command)

\* lines 82-137: the handler up to its first await
ProcessSelectedFiles(i) ==
    /\ proc[i].command.at = "invoked"
    /\ LET config == vscode.config
           command == [proc[i].command EXCEPT !.checked = vscode.checkedFiles,
                                              !.backup = config.backup,
                                              !.packageName = config.packageName]
           flutterProjectName == getFlutterProjectName(fs, vscode.workspaceFolders)
       IN proc' =
            IF command.checked = << >>
            THEN [proc EXCEPT ![i].command =
                     Shows([command EXCEPT !.at = "returned"], "warning", "No files are checked.")]
            ELSE IF config.apiKey = ""
            THEN [proc EXCEPT ![i].command =
                     Shows([command EXCEPT !.at = "returned"], "error", "Missing API key")]
            ELSE IF command.packageName # "" THEN [proc EXCEPT ![i] = Launch(command)]
            ELSE IF flutterProjectName # ""
            THEN [proc EXCEPT ![i].command =
                     [command EXCEPT !.at = "configUpdate",
                                     !.flutterProjectName = flutterProjectName]]
            ELSE [proc EXCEPT ![i] = Launch(Shows(command, "warning", "No pubspec.yaml found"))]
    /\ UNCHANGED <<fs, fs0, aw, mE, mI, mOut, vscode>>

\* lines 109-113: await config.update('packageName', flutterProjectName, ...)
\* is over; the handler shows the detected name and goes on
ConfigUpdated(i) ==
    /\ proc[i].command.at = "configUpdate"
    /\ vscode' = [vscode EXCEPT !.config.packageName = proc[i].command.flutterProjectName]
    /\ proc' = [proc EXCEPT ![i] =
                   Launch(Shows(proc[i].command, "information", "Flutter project detected"))]
    /\ UNCHANGED <<fs, fs0, aw, mE, mI, mOut>>

\* The generateL10n.toggleCheck command: the user clicks a file of the tree
\* while a processSelectedFiles command is between two of its awaits.
ToggleCheck(path) ==
    /\ \E i \in Callers :
          proc[i].command.at \in {"configUpdate", "process", "timeout500", "timeout2000"}
    /\ vscode' = [vscode EXCEPT !.checkedFiles = toggleCheck(vscode.checkedFiles, path)]
    /\ UNCHANGED <<fs, fs0, aw, proc, mE, mI, mOut>>

\* Mutant: the command goes on whether process() returned or threw.
CommandResumes_ignoresFailure(i) ==
    /\ proc[i].command.at = "process"
    /\ proc[i].at \in {"done", "failed"}
    /\ proc' = [proc EXCEPT ![i].command.at = "timeout500"]
    /\ UNCHANGED <<fs, fs0, aw, mE, mI, mOut, vscode>>

\* await modifier.process() returns; the command waits 500 ms
CommandResumes(i) ==
    /\ proc[i].command.at = "process"
    /\ proc[i].at = "done"
    /\ proc' = [proc EXCEPT ![i].command.at = "timeout500"]
    /\ UNCHANGED <<fs, fs0, aw, mE, mI, mOut, vscode>>

\* terminal.sendText('flutter gen-l10n'); the command waits 2000 ms
SendText(i) ==
    /\ proc[i].command.at = "timeout500"
    /\ proc' = [proc EXCEPT ![i].command.at = "timeout2000",
                            ![i].command.terminal =
                                Append(proc[i].command.terminal, "flutter gen-l10n")]
    /\ UNCHANGED <<fs, fs0, aw, mE, mI, mOut, vscode>>

\* refresh, uncheck, and the final notification
CommandCompletes(i) ==
    /\ proc[i].command.at = "timeout2000"
    /\ vscode' = [vscode EXCEPT !.checkedFiles =
                     ToggleEach(vscode.checkedFiles, proc[i].command.checked)]
    /\ proc' = [proc EXCEPT ![i].command.at = "completed",
                            ![i].command.messages =
                                Append(proc[i].command.messages,
                                       [kind |-> "information",
                                        text |-> "Processing completed successfully"])]
    /\ UNCHANGED <<fs, fs0, aw, mE, mI, mOut>>

\* catch (err): showErrorMessage(`Error: ${err.message}`)
CommandCatches(i) ==
    /\ proc[i].command.at = "process"
    /\ proc[i].at = "failed"
    /\ proc' = [proc EXCEPT ![i].command.at = "caught",
                            ![i].command.messages =
                                Append(proc[i].command.messages,
                                       [kind |-> "error", text |-> proc[i].error])]
    /\ UNCHANGED <<fs, fs0, aw, mE, mI, mOut, vscode>>

(***************************************************************************)
(* Initial file systems and the specifications                             *)
(***************************************************************************)
Absent == <<Lit("<absent>")>>

MkFs(entries) ==
    LET live == {x \in entries : x[2] # Absent}
    IN [q \in {x[1] : x \in live} |-> (CHOOSE x \in live : x[1] = q)[2]]

EnPath == TargetArbPath(<<"en">>)
FrPath == TargetArbPath(<<"fr">>)
Curated == <<Doc("compact", Obj(<< <<"greeting", A>> >>))>>

EnContents == {Absent, Curated, NotJson}
FrContents == {Curated, NotJson}
HomeSource == <<Lit("home source")>>
CartSource == <<Lit("cart source")>>
MenuSource == <<Lit("menu source")>>

\* The project before the run: the bundle folder with app_en.arb and
\* app_fr.arb and the first two input files (the third is missing); or only
\* the first; or the first and the third; or no bundle folder; or the first
\* input file missing.
Projects ==
    { MkFs({<<ArbsFolder, DirEntry>>, <<EnPath, en>>, <<FrPath, fr>>,
            <<Files[1], HomeSource>>, <<Files[2], CartSource>>}) :
        en \in EnContents, fr \in FrContents }
      \cup { MkFs({<<ArbsFolder, DirEntry>>, <<EnPath, Curated>>, <<FrPath, Curated>>,
                   <<Files[1], HomeSource>>}),
             MkFs({<<ArbsFolder, DirEntry>>, <<EnPath, Curated>>, <<FrPath, Curated>>,
                   <<Files[1], HomeSource>>, <<Files[3], MenuSource>>}),
             MkFs({<<Files[1], HomeSource>>, <<Files[2], CartSource>>}),
             MkFs({<<ArbsFolder, DirEntry>>, <<EnPath, Curated>>, <<FrPath, Curated>>,
                   <<Files[2], CartSource>>}) }

Template == <<Lit("template")>>
PromptNames == {"chooseLanguage", "process", "amendArb"}
PromptPaths == {SysPath(name) : name \in PromptNames} \cup {HumPath(name) : name \in PromptNames}

\* The files of `files` and the prompt templates but for `missing`.
WithPrompts(files, missing) ==
    [q \in DOMAIN files \cup (PromptPaths \ missing) |->
        IF q \in DOMAIN files THEN files[q] ELSE Template]

\* A project with the first input file only.
OneFileProject ==
    MkFs({<<ArbsFolder, DirEntry>>, <<EnPath, Curated>>, <<FrPath, Curated>>,
          <<Files[1], HomeSource>>})

\* A project with app_en.arb as its only bundle and the first two input files.
TwoFileProject ==
    MkFs({<<ArbsFolder, DirEntry>>, <<EnPath, Curated>>,
          <<Files[1], HomeSource>>, <<Files[2], CartSource>>})

\* A bundle folder with app_en.arb and app_en_US.arb, and no input file.
EnUsPath == TargetArbPath(<<"en", "_", "US">>)
RegionProject ==
    MkFs({<<ArbsFolder, DirEntry>>, <<EnPath, Curated>>, <<EnUsPath, Curated>>})

\* The projects with every template in place, and one project with a
\* template file of one operation missing.
Worlds ==
    { WithPrompts(files, {}) : files \in Projects }
      \cup { WithPrompts(OneFileProject, {path}) :
                path \in {HumPath("chooseLanguage"), SysPath("process"), SysPath("amendArb")} }
      \cup { WithPrompts(RegionProject, {}), WithPrompts(TwoFileProject, {}) }

\* The projects on which process() is also run with the backup option.
BackupWorlds ==
    { WithPrompts(OneFileProject, {}), WithPrompts(TwoFileProject, {}) }

Idle == [i \in Callers |-> IdleFrame]

\* The editor's state: the tree view's checked files, the generateL10n
\* settings, and whether a workspace folder is open.
Editor(checkedFiles, apiKey, packageName, workspaceFolders) ==
    [checkedFiles |-> checkedFiles,
     config |-> [apiKey |-> apiKey, packageName |-> packageName, backup |-> FALSE],
     workspaceFolders |-> workspaceFolders]

NoEditor == Editor(<< >>, "", "", FALSE)

\* One process() invocation.
Init ==
    /\ fs \in Worlds
    /\ fs0 = fs
    /\ aw = Idle
    /\ \E backup \in BOOLEAN :
          /\ backup => fs \in BackupWorlds
          /\ proc = [i \in Callers |-> IF i = 1 THEN Started(backup) ELSE NotStarted]
          /\ vscode = [Editor(Files, "key", "shop_app", TRUE) EXCEPT !.config.backup = backup]
    /\ NoMerge

AtomicWriteStep(i) ==
    \/ BackupAccess(i)
    \/ BackupCopy(i)
    \/ WriteOpen(i)
    \/ WriteFinish(i)
    \/ Rename(i)

ProcessStep(i) ==
    \/ BackendReplies(i)
    \/ LoadPromptThrows(i)
    \/ AccessFolder(i)
    \/ Readdir(i)
    \/ AccessFirst(i)
    \/ ReadFirst(i)
    \/ ChooseLanguage(i)
    \/ ReadTarget(i)
    \/ Access(i)
    \/ ReadFile(i)
    \/ Process(i)
    \/ ReadExisting(i)
    \/ AfterWriteArb(i)
    \/ AfterWriteFlutter(i)
    \/ AmendArb(i)
    \/ ReadOther(i)
    \/ AfterWriteOther(i)
    \/ WriteThrew(i)

CommandStep(i) ==
    \/ CommandResumes(i)
    \/ SendText(i)
    \/ CommandCompletes(i)
    \/ CommandCatches(i)

Next == \E i \in Callers : ProcessStep(i) \/ AtomicWriteStep(i)

Spec == Init /\ [][Next]_vars

\* Two process() invocations over the same bundle folder and the same input
\* file, both past the language detection (which answered "en") and the
\* read of the source bundle, and about to enter the file loop.
SharedProjects ==
    { WithPrompts(MkFs({<<ArbsFolder, DirEntry>>, <<EnPath, en>>, <<Files[1], HomeSource>>}), {}) :
        en \in {Absent, Curated} }

Detected(files) ==
    [Started(FALSE) EXCEPT
        !.at = "access", !.n = 1,
        !.arbFiles = IF Exists(files, EnPath) THEN <<EnPath>> ELSE << >>,
        !.langTag = <<"en">>,
        !.arbContent = ReadOr(files, EnPath, EmptyJson),
        !.reply = [got |-> TRUE, raw |-> <<Talk, MARK, WS, Lit("en"), WS>>],
        !.llmCalls = <<LlmCall("chooseLanguage", Files[1])>>]

InitTwo ==
    /\ fs \in SharedProjects
    /\ fs0 = fs
    /\ aw = Idle
    /\ proc = [i \in Callers |-> Detected(fs)]
    /\ vscode = Editor(Files, "key", "shop_app", TRUE)
    /\ NoMerge

FileLoopStep(i) ==
    \/ BackendReplies(i)
    \/ Access(i)
    \/ ReadFile(i)
    \/ Process(i)
    \/ ReadExisting(i)
    \/ AfterWriteArb(i)
    \/ AfterWriteFlutter(i)
    \/ WriteThrew(i)
    \/ WriteOpen(i)
    \/ WriteFinish(i)
    \/ Rename(i)

NextTwo == \E i \in Callers : FileLoopStep(i)

SpecTwo == InitTwo /\ [][NextTwo]_vars

\* The processSelectedFiles command from its invocation, in a project with
\* one bundle and the first input file, while the user clicks in the tree.
\* pubspec.yaml is missing, names the project, names nothing, or is not YAML.
CommandProjects ==
    { WithPrompts(MkFs({<<ArbsFolder, DirEntry>>, <<EnPath, Curated>>,
                        <<Files[1], HomeSource>>, <<PubspecPath, pubspec>>}), {}) :
        pubspec \in {Absent,
                     <<Lit("name:"), WS, Lit("shop_app")>>,
                     <<Lit("version:"), WS, Lit("1.0.0")>>,
                     <<Lit("{")>>} }

\* The files of the tree the user clicks: one that was checked when the
\* command was invoked and one that was not.
TreeFiles == {Files[1], <<"lib", "/", "main", ".", "dart">>}

InitCommand ==
    /\ fs \in CommandProjects
    /\ fs0 = fs
    /\ aw = Idle
    /\ proc = [i \in Callers |-> IF i = 1 THEN [NotStarted EXCEPT !.command.at = "invoked"]
                                         ELSE NotStarted]
    /\ \E checkedFiles \in {<< >>, Files}, apiKey \in {"", "key"},
          packageName \in {"", "shop_app"}, workspaceFolders \in BOOLEAN :
          vscode = Editor(checkedFiles, apiKey, packageName, workspaceFolders)
    /\ NoMerge

\* The steps of process() in these projects: every template is in place and
\* the backup option is off.
RunStep(i) ==
    \/ BackendReplies(i)
    \/ AccessFolder(i)
    \/ Readdir(i)
    \/ AccessFirst(i)
    \/ ReadFirst(i)
    \/ ChooseLanguage(i)
    \/ ReadTarget(i)
    \/ Access(i)
    \/ ReadFile(i)
    \/ Process(i)
    \/ ReadExisting(i)
    \/ AfterWriteArb(i)
    \/ AfterWriteFlutter(i)
    \/ AmendArb(i)
    \/ ReadOther(i)
    \/ AfterWriteOther(i)
    \/ WriteThrew(i)
    \/ WriteOpen(i)
    \/ WriteFinish(i)
    \/ Rename(i)

NextCommand ==
    \/ \E i \in Callers :
          \/ ProcessSelectedFiles(i)
          \/ ConfigUpdated(i)
          \/ RunStep(i)
          \/ CommandStep(i)
    \/ \E path \in TreeFiles : ToggleCheck(path)

SpecCommand == InitCommand /\ [][NextCommand]_vars

\* A direct call of mergeJsonStrings on two texts.
InitMerge ==
    /\ mE \in MergeTexts
    /\ mI \in MergeTexts
    /\ mOut = NoCall
    /\ fs = MkFs({})
    /\ fs0 = fs
    /\ aw = Idle
    /\ proc = [i \in Callers |-> NotStarted]
    /\ vscode = NoEditor

NextMerge == Merge \/ MergeAgain

SpecMerge == InitMerge /\ [][NextMerge]_vars

\* A direct call of atomicWrite, which may be interrupted at any step.
WriteTargets == {EnPath, Files[1]}
WriteContents == {Curated, <<Doc("indent2", Obj(<< <<"greeting", B>> >>))>>, <<NewSource>>}

InitWrite ==
    /\ fs \in { MkFs({<<ArbsFolder, DirEntry>>, <<EnPath, en>>, <<BackupPath(EnPath), bak>>,
                      <<Files[1], HomeSource>>}) :
                 en \in {Absent, Curated, NotJson}, bak \in {Absent, NotJson} }
    /\ fs0 = fs
    /\ aw = Idle
    /\ proc = [i \in Callers |-> NotStarted]
    /\ vscode = NoEditor
    /\ NoMerge

CallAtomicWrite(i) ==
    /\ aw[i].at = "idle"
    /\ \E filePath \in WriteTargets, content \in WriteContents, backup \in BOOLEAN :
          aw' = [aw EXCEPT ![i] = atomicWrite(fs, filePath, content, backup)]
    /\ UNCHANGED <<fs, fs0, proc, mE, mI, mOut, vscode>>

Crash(i) ==
    /\ aw[i].at \in {"access", "copyFile", "writeFile", "writing", "rename"}
    /\ aw' = [aw EXCEPT ![i].at = "crashed"]
    /\ UNCHANGED <<fs, fs0, proc, mE, mI, mOut, vscode>>

NextWrite == CallAtomicWrite(1) \/ Crash(1) \/ AtomicWriteStep(1)

SpecWrite == InitWrite /\ [][NextWrite]_vars

(***************************************************************************)
(* Properties of mergeJsonStrings (checked under SpecMerge)                *)
(***************************************************************************)
FlatInput(s) == JsonParse(s).ok /\ IsFlat(JsonParse(s).val)

\* C1: for flat objects E and I, every key of E is in merge(E, I) with E's
\* value, also when I holds another value for it.
C1_ExistingWins ==
    (mOut.done /\ FlatInput(mE) /\ FlatInput(mI)) =>
        LET E == JsonParse(mE).val
            out == JsonParse(mOut.out)
        IN /\ out.ok
           /\ \A key \in KeysOf(E) : HasKey(out.val, key) /\ Get(out.val, key) = Get(E, key)

\* C1 witness: a merge of two flat objects that disagree on a key.
C1_Witness ==
    /\ mOut.done /\ FlatInput(mE) /\ FlatInput(mI)
    /\ \E key \in KeysOf(JsonParse(mE).val) \cap KeysOf(JsonParse(mI).val) :
          Get(JsonParse(mE).val, key) # Get(JsonParse(mI).val, key)

\* C9: if either argument is non-empty text that is not JSON, the result is
\* the existing argument, unchanged.
C9_UnparseableReturnsExisting ==
    (mOut.done /\ (\/ mE # << >> /\ ~JsonParse(mE).ok
                   \/ mI # << >> /\ ~JsonParse(mI).ok)) => mOut.out = mE

\* C9 witness: a bundle with a key merged with a payload that is not JSON.
C9_Witness ==
    /\ mOut.done /\ FlatInput(mE) /\ KeysOf(JsonParse(mE).val) # {}
    /\ mI # << >> /\ ~JsonParse(mI).ok

\* C10 (as claimed): existing content that is valid JSON but not a flat
\* object comes back unchanged.
C10_NonFlatPassesThrough ==
    (mOut.done /\ JsonParse(mE).ok /\ ~IsFlat(JsonParse(mE).val)) => mOut.out = mE

\* C11: for flat objects E and I, every key that only I holds is in
\* merge(E, I) with I's value, and merge(E, I) has no key that neither holds.
C11_IncomingOnlyKeysAdded ==
    (mOut.done /\ FlatInput(mE) /\ FlatInput(mI)) =>
        LET E == JsonParse(mE).val
            I == JsonParse(mI).val
            out == JsonParse(mOut.out)
        IN /\ out.ok
           /\ \A key \in KeysOf(I) \ KeysOf(E) :
                 HasKey(out.val, key) /\ Get(out.val, key) = Get(I, key)
           /\ KeysOf(out.val) \subseteq KeysOf(E) \cup KeysOf(I)

\* C11 witness: a merge where I brings a key that E, which is not empty,
\* does not hold.
C11_Witness ==
    /\ mOut.done /\ FlatInput(mE) /\ FlatInput(mI)
    /\ KeysOf(JsonParse(mE).val) # {}
    /\ KeysOf(JsonParse(mI).val) \ KeysOf(JsonParse(mE).val) # {}

\* C12: for flat objects E and I, merging the first result with I again
\* returns the first result, text for text, and a second call on the same
\* inputs returns the same text as the first.
C12_MergeIdempotent ==
    (mOut.again /\ FlatInput(mE) /\ FlatInput(mI)) =>
        /\ mOut.twice = mOut.out
        /\ mOut.same = mOut.out

\* C12 witness: merged twice, where E and I disagree on a key, each holds
\* a key of its own, and E's text is not in the layout the merge writes.
C12_Witness ==
    /\ mOut.again /\ FlatInput(mE) /\ FlatInput(mI)
    /\ \E key \in KeysOf(JsonParse(mE).val) \cap KeysOf(JsonParse(mI).val) :
          Get(JsonParse(mE).val, key) # Get(JsonParse(mI).val, key)
    /\ KeysOf(JsonParse(mI).val) \ KeysOf(JsonParse(mE).val) # {}
    /\ KeysOf(JsonParse(mE).val) \ KeysOf(JsonParse(mI).val) # {}
    /\ mOut.out # mE

(***************************************************************************)
(* Properties of atomicWrite (checked under SpecWrite)                     *)
(***************************************************************************)
Unchanged(frame) ==
    /\ Exists(fs, frame.filePath) = frame.had
    /\ frame.had => fs[frame.filePath] = frame.before

Installed(frame) == Exists(fs, frame.filePath) /\ fs[frame.filePath] = frame.content

\* C4: from the call until the rename, and after a failure or a crash at any
\* step, the target is as it was before the call; once the call has returned
\* it holds the whole new content.  It never holds anything else.
C4_OldOrNewNeverPartial ==
    \A i \in Callers :
        aw[i].at # "idle" =>
            IF aw[i].at = "returned" THEN Installed(aw[i]) ELSE Unchanged(aw[i])

\* C4 witness: a crash while the temp file of an existing target is half
\* written.
C4_Witness ==
    \E i \in Callers :
        /\ aw[i].at = "crashed" /\ aw[i].had
        /\ Exists(fs, aw[i].tmpName) /\ fs[aw[i].tmpName] = Truncated

\* C5: when atomicWrite(p, C, false) has returned, p holds exactly C.
C5_ReturnedHoldsContent ==
    \A i \in Callers :
        (aw[i].at = "returned" /\ ~aw[i].backup) =>
            (Exists(fs, aw[i].filePath) /\ fs[aw[i].filePath] = aw[i].content)

\* C5 witness: a returned call without backup on a path that did not exist.
C5_Witness ==
    \E i \in Callers : aw[i].at = "returned" /\ ~aw[i].backup /\ ~aw[i].had

\* The sibling <p>.bak holds what p held when the call was made.
BackupHoldsOld(frame) ==
    /\ Exists(fs, BackupPath(frame.filePath))
    /\ fs[BackupPath(frame.filePath)] = frame.before

C21_BackupIsAdvisory ==
    [][\A i \in Callers :
          /\ (aw[i].at \in {"access", "copyFile"} /\ aw'[i] # aw[i]) =>
                aw'[i].at \in {"copyFile", "writeFile", "crashed"}
          /\ (aw'[i].at = "returned" /\ aw'[i].backup /\ ~aw'[i].copied) =>
                (Exists(fs', aw'[i].filePath) /\ fs'[aw'[i].filePath] = aw'[i].content)]_vars

\* C21 witness: a call with backup on an existing target has returned, the
\* copy having failed: no backup exists and the target holds the new content.
C21_Witness ==
    \E i \in Callers :
        /\ aw[i].at = "returned" /\ aw[i].backup /\ aw[i].had /\ ~aw[i].copied
        /\ ~Exists(fs, BackupPath(aw[i].filePath))
        /\ Installed(aw[i]) /\ aw[i].content # aw[i].before

(***************************************************************************)
(* Properties of process() (checked under Spec)                            *)
(***************************************************************************)
BundlePaths(files) ==
    {q \in DOMAIN files :
        q[Len(q)] = "arb" /\ Dirname(q) = ArbsFolder /\ IsArbName(Basename(q))}

\* Every key the flat object text `before` holds is in `files` at path with
\* the same value.
KeepsKeys(files, path, before) ==
    /\ Exists(files, path)
    /\ \/ files[path] = before /\ JsonParse(before).ok
       \/ LET now == JsonParse(files[path])
              was == JsonParse(before).val
          IN /\ now.ok
             /\ \A key \in KeysOf(was) :
                   HasKey(now.val, key) /\ Get(now.val, key) = Get(was, key)

Settled(i) == proc[i].at \in {"done", "failed"}

\* C2: when process() is over, every bundle other than the source language's
\* that was a flat object before the run still holds each of its keys with
\* the same value, whatever the translate call returned.
C2_CuratedTranslationsKept ==
    \A i \in Callers :
        Settled(i) =>
            \A b \in BundlePaths(fs0) :
                (b # TargetArbPath(proc[i].langTag) /\ FlatInput(fs0[b]))
                    => KeepsKeys(fs, b, fs0[b])

\* C2 witness: fr's curated greeting met a translation with another value
\* for greeting, and the merge added the translation's other key.
C2_Witness ==
    \E i \in Callers :
        /\ proc[i].at = "done" /\ proc[i].langTag = <<"en">>
        /\ Exists(fs0, FrPath) /\ fs0[FrPath] = Curated
        /\ JsonParse(proc[i].translated).ok
        /\ HasKey(JsonParse(proc[i].translated).val, "greeting")
        /\ Get(JsonParse(proc[i].translated).val, "greeting") = B
        /\ HasKey(JsonParse(fs[FrPath]).val, "farewell")

\* C3, first part: when the bundle write of an iteration has returned, the
\* source bundle is the merge of what was re-read in that iteration with the
\* whole running key set.
C3_WrittenIsMergeOfReread ==
    \A i \in Callers :
        (proc[i].at = "writeArb" /\ aw[i].at = "returned") =>
            fs[TargetArbPath(proc[i].langTag)] =
                mergeJsonStrings(IF aw[i].had THEN aw[i].before ELSE EmptyJson,
                                 JsonStringify(proc[i].fullArbLines))

\* C3, second part: at every state each key the source bundle held before the
\* run has its original value.
C3_SourceKeysKept ==
    \A i \in Callers :
        LET target == TargetArbPath(proc[i].langTag)
        IN (Exists(fs0, target) /\ JsonParse(fs0[target]).ok)
               => KeepsKeys(fs, target, fs0[target])

\* C3, third part: the source bundle holds every extracted key.
HoldsExtracted(i) ==
    LET target == TargetArbPath(proc[i].langTag)
    IN \A key \in KeysOf(proc[i].fullArbLines) :
          /\ Exists(fs, target)
          /\ JsonParse(fs[target]).ok
          /\ HasKey(JsonParse(fs[target]).val, key)

\* The source bundle was missing, empty or JSON before the run.
SourceBundleUsable(i) ==
    LET target == TargetArbPath(proc[i].langTag)
    IN ~Exists(fs0, target) \/ fs0[target] = << >> \/ JsonParse(fs0[target]).ok

\* C3 (as claimed): the three parts, the third for any bundle.
C3_AsClaimed ==
    /\ C3_WrittenIsMergeOfReread
    /\ C3_SourceKeysKept
    /\ \A i \in Callers : proc[i].at = "done" => HoldsExtracted(i)

\* C3 (amended): the three parts, the third for a source bundle that was
\* missing, empty or parseable JSON before the run.  (One that is not JSON is
\* passed through unchanged by every merge and never receives a key.)
C3_Amended ==
    /\ C3_WrittenIsMergeOfReread
    /\ C3_SourceKeysKept
    /\ \A i \in Callers :
          (proc[i].at = "done" /\ SourceBundleUsable(i)) => HoldsExtracted(i)

\* C3 witness: scenario A with a collision: the run is over, the source
\* bundle held greeting before, and the extraction returned farewell and
\* another value for greeting.
C3_Witness ==
    \E i \in Callers :
        /\ proc[i].at = "done"
        /\ Exists(fs0, TargetArbPath(proc[i].langTag))
        /\ fs0[TargetArbPath(proc[i].langTag)] = Curated
        /\ HasKey(proc[i].fullArbLines, "farewell")
        /\ HasKey(proc[i].fullArbLines, "greeting")
        /\ Get(proc[i].fullArbLines, "greeting") = B

\* The step in which process() resumes from the extract call for a file.
ExtractResumes(i) == proc[i].at = "process" /\ proc[i].reply.got /\ proc'[i] # proc[i]

\* The file is over and the loop goes on: the next file, or the translations.
SkipsToNextFile(i) ==
    /\ proc'[i].at \in {"access", "amendArb", "done"}
    /\ proc'[i].n = proc[i].n + 1
    /\ proc'[i].fullArbLines = proc[i].fullArbLines

\* C6 (as claimed): a keys segment that is not JSON fails that file only: the
\* running key set is unchanged and the loop goes on with the next file.
C6_BadKeysFailOnlyThatFile ==
    [][\A i \in Callers :
          (/\ ExtractResumes(i)
           /\ ~llmProcess(proc[i].reply.raw).threw
           /\ ~ParsedArbLines(llmProcess(proc[i].reply.raw).ret).ok) => SkipsToNextFile(i)]_vars

\* C7 (as claimed): an extract response without the final-answer marker
\* aborts that file only and the loop goes on with the next file.
C7_NoMarkerFailsOnlyThatFile ==
    [][\A i \in Callers :
          (ExtractResumes(i) /\ Len(SplitOn(Trim(proc[i].reply.raw), MARK)) < 2)
              => SkipsToNextFile(i)]_vars

\* C8 (as claimed): when the translate call or the write for one language
\* fails, process() goes on with the next language, or ends in success.
C8_TranslationFailureIsolated ==
    [][\A i \in Callers :
          (/\ proc'[i] # proc[i]
           /\ \/ /\ proc[i].at = "amendArb" /\ proc[i].reply.got
                 /\ Len(SplitOn(Trim(proc[i].reply.raw), MARK)) < 2
              \/ proc[i].at = "writeOther" /\ aw[i].at = "threw")
              => /\ proc'[i].at \in {"amendArb", "done"}
                 /\ proc'[i].t = proc[i].t + 1]_vars

(***************************************************************************)
(* Properties of the gateway calls (checked under Spec)                    *)
(***************************************************************************)
\* The text after the last occurrence of the marker, trimmed.
LastPayload(raw) ==
    LET parts == SplitOn(Trim(raw), MARK) IN Trim(parts[Len(parts)])

MarkedTwice(raw) == Len(SplitOn(Trim(raw), MARK)) > 2

\* C13 (as claimed): when a response holds the marker more than once, what
\* each of the three operations returns is the text after the last marker:
\* the language tag comes from it, the rewritten source comes from it, and
\* the translation is it.
C13_PayloadAfterLastMarker ==
    \A i \in Callers :
        (proc[i].reply.got /\ MarkedTwice(proc[i].reply.raw)) =>
            /\ proc[i].at = "readTarget" =>
                  proc[i].langTag = LangTag(LastPayload(proc[i].reply.raw))
            /\ proc[i].at = "readExisting" =>
                  proc[i].updatedFlutter = UpdatedFlutter(LastPayload(proc[i].reply.raw))
            /\ proc[i].at = "readOther" =>
                  proc[i].translated = LastPayload(proc[i].reply.raw)

\* C14 (as claimed): an extract response whose final-answer payload has no
\* <dart> separator is never accepted: process() does not go on to merge
\* its keys.
C14_NoDartSeparatorRejected ==
    \A i \in Callers :
        (proc[i].at = "readExisting" /\ proc[i].reply.got) =>
            LET finalResponse == llmProcess(proc[i].reply.raw).ret
            IN \E n \in DOMAIN finalResponse : finalResponse[n] = DART

\* C15 (as claimed): from the second input file on, the bundle text handed
\* to the extract call holds every key the source bundle holds on disk at
\* that moment.
C15_ContextIsRunningBundle ==
    \A i \in Callers :
        (proc[i].at = "process" /\ proc[i].n >= 2) =>
            LET running == ReadOr(fs, TargetArbPath(proc[i].langTag), EmptyJson)
            IN \A key \in KeysOf(JsonParse(running).val) :
                  HasKey(JsonParse(proc[i].processArgs.arbFile).val, key)

\* C17: llm.amendArb is never called before the last input file is done,
\* never twice for one bundle, never for the source language's bundle, only
\* for bundles that readdir listed, each time with that bundle's language and
\* with the whole running key set as it is after the last input file; and
\* when process() returns it has been called for every listed bundle but the
\* source language's.
C17_TranslateOncePerOtherBundle ==
    \A i \in Callers :
        LET calls == proc[i].amendArbArgs
            target == TargetArbPath(proc[i].langTag)
            listed == {proc[i].arbFiles[m] : m \in DOMAIN proc[i].arbFiles}
        IN /\ proc[i].n <= Len(Files) => calls = << >>
           /\ \A a, b \in DOMAIN calls : a # b => calls[a].arbFile # calls[b].arbFile
           /\ \A a \in DOMAIN calls :
                 /\ calls[a].arbFile \in listed \ {target}
                 /\ calls[a].langTag = LangOf(calls[a].arbFile)
                 /\ calls[a].inputJson = JsonStringify(proc[i].fullArbLines)
           /\ proc[i].at = "done" =>
                 {calls[a].arbFile : a \in DOMAIN calls} = listed \ {target}

\* C17 witness: process() has returned, the source language's bundle was one
\* of two listed, keys were extracted, and the one call was for the other.
C17_Witness ==
    \E i \in Callers :
        /\ proc[i].at = "done"
        /\ Len(proc[i].arbFiles) = 2
        /\ proc[i].langTag = <<"en">>
        /\ KeysOf(proc[i].fullArbLines) # {}
        /\ Len(proc[i].amendArbArgs) = 1
        /\ proc[i].amendArbArgs[1].arbFile = FrPath

(***************************************************************************)
(* Properties of the files process() leaves (checked under Spec)           *)
(***************************************************************************)
\* The bundles the run read or wrote: the listed ones and the source
\* language's.
TouchedBundles(i) ==
    {proc[i].arbFiles[m] : m \in DOMAIN proc[i].arbFiles} \cup {TargetArbPath(proc[i].langTag)}

HoldsJson(files, path) == Exists(files, path) /\ JsonParse(files[path]).ok

\* C16 (as claimed): when process() has returned, every bundle it read or
\* wrote holds valid JSON, whatever the bundles held before.
C16_AsClaimed ==
    \A i \in Callers :
        proc[i].at = "done" => \A b \in TouchedBundles(i) : HoldsJson(fs, b)

\* C16 (amended): when process() has returned, every bundle it read or wrote
\* that was missing or held valid JSON before the run holds valid JSON.  (A
\* bundle whose text was not JSON is written back as it was.)
C16_Amended ==
    \A i \in Callers :
        proc[i].at = "done" =>
            \A b \in TouchedBundles(i) :
                (~Exists(fs0, b) \/ JsonParse(fs0[b]).ok) => HoldsJson(fs, b)

\* C16 witness: process() has returned having created the source bundle and
\* having merged a translation that is not JSON into a curated bundle.
C16_Witness ==
    \E i \in Callers :
        /\ proc[i].at = "done"
        /\ proc[i].langTag = <<"en">> /\ ~Exists(fs0, EnPath)
        /\ KeysOf(proc[i].fullArbLines) # {}
        /\ Exists(fs0, FrPath) /\ fs0[FrPath] = Curated
        /\ ~JsonParse(proc[i].translated).ok

\* The step in which the loop leaves the file it was working on, after the
\* bundle write or after the write of the file itself.
IterationEnds(i) ==
    /\ proc[i].at \in {"writeArb", "writeFlutter"}
    /\ proc'[i].n = proc[i].n + 1

\* The rewritten-source segment of the extract response in hand.
RewrittenSource(i) == UpdatedFlutter(llmProcess(proc[i].reply.raw).ret)

\* C18: when the iteration for an input file ends, the file holds the
\* rewritten-source segment of the extract response if that segment is not
\* empty; if it is empty the file holds what it held before the run and no
\* write of it was made (no backup copy of it exists either).
C18_FileRewrittenOrUntouched ==
    [][\A i \in Callers :
          IterationEnds(i) =>
              LET filePath == Files[proc[i].n]
              IN IF RewrittenSource(i) # << >>
                 THEN Exists(fs', filePath) /\ fs'[filePath] = RewrittenSource(i)
                 ELSE /\ Exists(fs', filePath) /\ fs'[filePath] = fs0[filePath]
                      /\ proc[i].at = "writeArb"
                      /\ ~Exists(fs', BackupPath(filePath))]_vars

\* C18 witness: the first file's iteration is over and the file holds the
\* rewritten source, the second file's extract response had an empty
\* rewritten-source segment, and the second file is as it was.
C18_Witness ==
    \E i \in Callers :
        /\ proc[i].n = 3
        /\ fs[Files[1]] = <<NewSource>> /\ fs0[Files[1]] = HomeSource
        /\ proc[i].reply.got /\ RewrittenSource(i) = << >>
        /\ Exists(fs, Files[2]) /\ fs[Files[2]] = CartSource

\* C19: the running key set never loses a key, and when an extract response
\* is accepted every key it brings has, from then on until the next one, the
\* value it brings.
C19_RunningKeySetGrows ==
    [][\A i \in Callers :
          /\ KeysOf(proc[i].fullArbLines) \subseteq KeysOf(proc'[i].fullArbLines)
          /\ (ExtractResumes(i) /\ proc'[i].at = "readExisting") =>
                LET parsed == ParsedArbLines(llmProcess(proc[i].reply.raw).ret).val
                IN \A key \in KeysOf(parsed) :
                      /\ HasKey(proc'[i].fullArbLines, key)
                      /\ Get(proc'[i].fullArbLines, key) = Get(parsed, key)
          /\ ~ExtractResumes(i) => proc'[i].fullArbLines = proc[i].fullArbLines]_vars

\* C19 witness: the second file brought another value for a key of the
\* first, and the running key set holds the second file's value while the
\* bundle on disk still holds the first's.
C19_Witness ==
    \E i \in Callers :
        /\ proc[i].n = 2 /\ proc[i].at = "readExisting"
        /\ HasKey(proc[i].fullArbLines, "farewell")
        /\ Get(proc[i].fullArbLines, "farewell") = B
        /\ HoldsJson(fs, TargetArbPath(proc[i].langTag))
        /\ HasKey(JsonParse(fs[TargetArbPath(proc[i].langTag)]).val, "farewell")
        /\ Get(JsonParse(fs[TargetArbPath(proc[i].langTag)]).val, "farewell") = A

(***************************************************************************)
(* Properties of the order of process()'s steps (checked under Spec)       *)
(***************************************************************************)
FileIndex(file) == CHOOSE n \in DOMAIN Files : Files[n] = file

\* C23: one thing at a time and in order.  A write is in flight only while
\* process() awaits it, and none is while a model call is pending; the first
\* model call, and only the first, is the language detection, and it is over
\* before the second call is made; the extract calls come in list order; no
\* extract call follows a translate call; and a translate call is made only
\* when every input file has been handled.
C23_StagesInOrder ==
    \A i \in Callers :
        LET calls == proc[i].llmCalls
        IN /\ aw[i].at \in {"access", "copyFile", "writeFile", "writing", "rename"} =>
                 proc[i].at \in {"writeArb", "writeFlutter", "writeOther"}
           /\ proc[i].at \in {"chooseLanguage", "process", "amendArb"} => aw[i].at = "idle"
           /\ \A a \in DOMAIN calls : (calls[a].op = "chooseLanguage") = (a = 1)
           /\ proc[i].at \in {"readTarget", "access", "readFile", "process", "readExisting",
                              "writeArb", "writeFlutter", "amendArb", "readOther",
                              "writeOther", "done"} => calls # << >>
           /\ Len(calls) >= 2 => proc[i].at # "chooseLanguage" /\ proc[i].langTag # << >>
           /\ \A a, b \in DOMAIN calls :
                 (a < b /\ calls[b].op = "process") =>
                     /\ calls[a].op # "amendArb"
                     /\ calls[a].op = "process" =>
                           FileIndex(calls[a].file) < FileIndex(calls[b].file)
           /\ (\E a \in DOMAIN calls : calls[a].op = "amendArb") =>
                 proc[i].n = Len(Files) + 1

\* C23 witness: process() has returned after the detection, two extract
\* calls and a translate call.
C23_Witness ==
    \E i \in Callers :
        /\ proc[i].at = "done"
        /\ [a \in DOMAIN proc[i].llmCalls |-> proc[i].llmCalls[a].op]
              = <<"chooseLanguage", "process", "process", "amendArb">>

\* The extract calls made so far.
ProcessCalls(p) == SelectSeq(p.llmCalls, LAMBDA c : c.op = "process")

\* C24: when an input file other than the first does not exist, the step
\* that finds it missing moves on to the next file (to the translations or
\* the end after the last file), makes no extract call, and changes neither
\* the running key set nor any file.
C24_MissingFileSkipped ==
    [][\A i \in Callers :
          (/\ proc[i].at = "access" /\ proc[i].n >= 2
           /\ ~Exists(fs, Files[proc[i].n])
           /\ proc'[i] # proc[i]) =>
              /\ proc'[i].n = proc[i].n + 1
              /\ proc'[i].at = IF proc[i].n < Len(Files) THEN "access"
                               ELSE IF proc'[i].amendArbArgs = << >> THEN "done"
                               ELSE "amendArb"
              /\ ProcessCalls(proc'[i]) = ProcessCalls(proc[i])
              /\ proc'[i].fullArbLines = proc[i].fullArbLines
              /\ fs' = fs]_vars

\* C24 witness: the second file was missing, and the extract call for the
\* third has been made after the one for the first.
C24_Witness ==
    \E i \in Callers :
        /\ ~Exists(fs0, Files[2])
        /\ proc[i].at = "process" /\ proc[i].n = 3
        /\ [a \in DOMAIN proc[i].llmCalls |-> proc[i].llmCalls[a].file]
              = <<Files[1], Files[1], Files[3]>>

\* C25: when the source language has no bundle file, the read of it does not
\* end the run, which goes on with "{}"; and when the bundle write for the
\* first input file has returned, the bundle file exists and holds exactly
\* the keys extracted so far, with their values.
C25_MissingSourceBundleCreated ==
    [][\A i \in Callers :
          LET target == TargetArbPath(proc'[i].langTag)
          IN /\ (proc[i].at = "readTarget" /\ proc'[i] # proc[i] /\ ~Exists(fs, target)) =>
                   (proc'[i].at = "access" /\ proc'[i].arbContent = EmptyJson)
             /\ (/\ proc'[i].at = "writeArb" /\ aw'[i].at = "returned" /\ proc'[i].n = 1
                 /\ ~Exists(fs0, target)) =>
                   /\ HoldsJson(fs', target)
                   /\ JsonParse(fs'[target]).val = proc'[i].fullArbLines]_vars

\* C25 witness: there was no bundle for the detected language, the first
\* file's keys were extracted, and the bundle write has returned.
C25_Witness ==
    \E i \in Callers :
        /\ proc[i].at = "writeArb" /\ aw[i].at = "returned" /\ proc[i].n = 1
        /\ ~Exists(fs0, TargetArbPath(proc[i].langTag))
        /\ KeysOf(proc[i].fullArbLines) # {}

\* C26: when the bundle folder does not exist, process() ends at its first
\* step with the error for the folder; when the folder exists and the first
\* input file does not, it ends at the check of that file with the error for
\* the file.  In both cases no model call has been made and no file has
\* been created or changed.
C26_ValidationFailsBeforeAnyEffect ==
    \A i \in Callers :
        /\ (~Exists(fs0, ArbsFolder) /\ proc[i].at \notin {"off", "accessFolder"}) =>
              /\ proc[i].at = "failed" /\ proc[i].error = "The folder does not exist"
              /\ proc[i].llmCalls = << >> /\ fs = fs0
        /\ (/\ Exists(fs0, ArbsFolder) /\ ~Exists(fs0, Files[1])
            /\ proc[i].at \notin {"off", "accessFolder", "readdir", "accessFirst"}) =>
              /\ proc[i].at = "failed" /\ proc[i].error = "Flutter file not found"
              /\ proc[i].llmCalls = << >> /\ fs = fs0

\* C26 witness: the folder exists with its bundles, the first input file
\* does not, and process() has failed.
C26_Witness ==
    \E i \in Callers :
        /\ proc[i].at = "failed"
        /\ Exists(fs0, ArbsFolder) /\ ~Exists(fs0, Files[1])
        /\ Len(proc[i].arbFiles) = 2

\* C27: when a template file of the operation called is missing, the call
\* throws without a reply from the backend having been asked for, and
\* process() ends there in failure, with no file changed.
C27_MissingPromptIsFatal ==
    [][\A i \in Callers :
          (/\ proc[i].at \in {"chooseLanguage", "process", "amendArb"}
           /\ ~(Exists(fs, SysPath(proc[i].at)) /\ Exists(fs, HumPath(proc[i].at)))
           /\ proc'[i] # proc[i]) =>
              /\ proc'[i].at = "failed" /\ proc'[i].error = "Missing prompt"
              /\ ~proc'[i].reply.got
              /\ proc'[i].llmCalls = proc[i].llmCalls
              /\ fs' = fs]_vars

\* C27 witness: process() has failed on the missing template of the
\* translate operation, after the file loop.
C27_Witness ==
    \E i \in Callers :
        /\ proc[i].at = "failed" /\ proc[i].error = "Missing prompt"
        /\ ~Exists(fs, SysPath("amendArb"))
        /\ proc[i].n = Len(Files) + 1
        /\ KeysOf(proc[i].fullArbLines) # {}

(***************************************************************************)
(* Properties of the language tags (checked under Spec)                    *)
(***************************************************************************)
\* The pieces of text made of characters of [a-zA-Z0-9_-] only.
TagPieces == {"en", "fr", "es", "US", "_", "-"}

\* C28: once the language is detected, the tag is made of allowed characters
\* only, and the source bundle's path is the file app_<tag>.arb directly in
\* the bundle folder, whatever the model answered.
C28_TagIsSanitized ==
    \A i \in Callers :
        proc[i].at \notin {"off", "accessFolder", "readdir", "accessFirst", "readFirst",
                           "chooseLanguage", "failed"} =>
            /\ \A n \in DOMAIN proc[i].langTag : proc[i].langTag[n] \in TagPieces
            /\ Dirname(TargetArbPath(proc[i].langTag)) = ArbsFolder
            /\ IsArbName(Basename(TargetArbPath(proc[i].langTag)))

\* C28 witness: the model answered "../en." and the tag is "en".
C28_Witness ==
    \E i \in Callers :
        /\ proc[i].at = "readTarget"
        /\ \E n \in DOMAIN proc[i].reply.raw : proc[i].reply.raw[n] = Lit("/")
        /\ \E n \in DOMAIN proc[i].reply.raw : proc[i].reply.raw[n] = Lit("..")
        /\ proc[i].langTag = <<"en">>

\* C29 (as claimed): two different bundle files listed from the folder never
\* give the same language tag.
C29_TagsUniquePerFile ==
    \A i \in Callers :
        \A a, b \in DOMAIN proc[i].arbFiles :
            a # b => LangOf(proc[i].arbFiles[a]) # LangOf(proc[i].arbFiles[b])

(***************************************************************************)
(* Properties of the processSelectedFiles command (under SpecCommand)      *)
(***************************************************************************)
\* C30: 'flutter gen-l10n' is sent to the terminal only when process() has
\* returned, and once; when process() has thrown nothing is ever sent, the
\* command can only go to its catch, and there the last message it has
\* shown is the error.
C30_GenL10nOnlyAfterSuccess ==
    \A i \in Callers :
        LET command == proc[i].command
        IN /\ command.terminal # << >> =>
                 (proc[i].at = "done" /\ command.terminal = <<"flutter gen-l10n">>)
           /\ command.at \in {"timeout500", "timeout2000", "completed"} => proc[i].at = "done"
           /\ proc[i].at = "failed" =>
                 (command.terminal = << >> /\ command.at \in {"process", "caught"})
           /\ command.at = "caught" =>
                 /\ proc[i].at = "failed"
                 /\ command.messages # << >>
                 /\ command.messages[Len(command.messages)]
                       = [kind |-> "error", text |-> proc[i].error]

\* C30 witness: process() threw in the translation stage, after it had
\* written files, and the command has shown the error and sent nothing.
C30_Witness ==
    \E i \in Callers :
        /\ proc[i].command.at = "caught"
        /\ proc[i].n = Len(Files) + 1 /\ fs # fs0
        /\ proc[i].command.terminal = << >>

(***************************************************************************)
(* Two concurrent invocations (checked under SpecTwo)                      *)
(***************************************************************************)
\* The rename of caller i's write succeeds.
RenameInstalls(i) == Rename(i) /\ aw'[i].at = "returned"

\* C22: nothing stands in the way of a stale write: whenever an invocation
\* has its merged bundle in the temp file and is about to rename it, the
\* rename can succeed, whatever the bundle holds by then, also when another
\* invocation has changed it since this one read it.
C22_StaleWriteNotPrevented ==
    \A i \in Callers :
        (proc[i].at = "writeArb" /\ aw[i].at = "rename" /\ Exists(fs, aw[i].tmpName)) =>
            ENABLED RenameInstalls(i)

\* C22 witness: a lost update.  Both invocations have returned, and a key
\* that one of them extracted, and wrote to the bundle, is not in the bundle.
C22_Witness ==
    /\ \A i \in Callers : proc[i].at = "done"
    /\ HoldsJson(fs, EnPath)
    /\ \E i \in Callers :
          \E key \in KeysOf(proc[i].fullArbLines) : ~HasKey(JsonParse(fs[EnPath]).val, key)

(***************************************************************************)
(* Properties across the two writes of an iteration (checked under Spec)   *)
(***************************************************************************)
\* The input file of extraction e holds the rewritten source e brought.
HoldsRewritten(e) == e.source # << >> /\ Exists(fs, e.file) /\ fs[e.file] = e.source

\* The source bundle on disk holds every key extraction e brought.
BundleHoldsKeys(i, e) ==
    LET target == TargetArbPath(proc[i].langTag)
        bundle == JsonParse(fs[target])
    IN \A key \in KeysOf(e.keys) :
          Exists(fs, target) /\ bundle.ok /\ HasKey(bundle.val, key)

\* C31 (as claimed): at every state, if an input file holds the rewritten
\* source an extraction brought, the source bundle on disk holds every key
\* of that extraction.
C31_AsClaimed ==
    \A i \in Callers :
        \A n \in DOMAIN proc[i].extractions :
            HoldsRewritten(proc[i].extractions[n]) => BundleHoldsKeys(i, proc[i].extractions[n])

\* C31 (amended): the same, for a source bundle that was missing, empty or
\* parseable JSON before the run.  (One that is not JSON is written back as
\* it was and never receives a key, and the input file is rewritten all the
\* same.)
C31_Amended ==
    \A i \in Callers :
        \A n \in DOMAIN proc[i].extractions :
            (HoldsRewritten(proc[i].extractions[n]) /\ SourceBundleUsable(i))
                => BundleHoldsKeys(i, proc[i].extractions[n])

\* C31 witness: the first file holds its rewritten source, the bundle write
\* of the second file's iteration has returned and the overwrite of the
\* second file is under way: its temp file is written, the file is as it was.
C31_Witness ==
    \E i \in Callers :
        /\ SourceBundleUsable(i)
        /\ proc[i].at = "writeFlutter" /\ proc[i].n = 2 /\ aw[i].at = "rename"
        /\ Len(proc[i].extractions) = 2
        /\ HoldsRewritten(proc[i].extractions[1])
        /\ KeysOf(proc[i].extractions[1].keys) # {}
        /\ KeysOf(proc[i].extractions[2].keys) # {}
        /\ fs[Files[2]] = CartSource

(***************************************************************************)
(* Properties of the translate payload (checked under Spec)                *)
(***************************************************************************)
\* C32 (as claimed): when the first translate call is made, every key of
\* its payload has, in the source bundle on disk, the value the payload
\* gives it.
C32_PayloadMatchesBundle ==
    \A i \in Callers :
        (proc[i].at = "amendArb" /\ proc[i].t = 1) =>
            LET target == TargetArbPath(proc[i].langTag)
                payload == JsonParse(proc[i].amendArbArgs[1].inputJson).val
            IN \A key \in KeysOf(payload) :
                  /\ HoldsJson(fs, target)
                  /\ HasKey(JsonParse(fs[target]).val, key)
                  /\ Get(JsonParse(fs[target]).val, key) = Get(payload, key)

(***************************************************************************)
(* Properties of the backups process() leaves (checked under Spec)         *)
(***************************************************************************)
\* C33 (as claimed): when process() has returned from a run with the backup
\* option, the source bundle's .bak sibling holds what the source bundle held
\* before the run.
C33_BackupHoldsPreRunBundle ==
    \A i \in Callers :
        LET target == TargetArbPath(proc[i].langTag)
        IN (proc[i].at = "done" /\ proc[i].backup /\ Exists(fs0, target)) =>
               /\ Exists(fs, BackupPath(target))
               /\ fs[BackupPath(target)] = fs0[target]

(***************************************************************************)
(* Properties of the command and the tree view (checked under SpecCommand) *)
(***************************************************************************)
\* C34 (as claimed): when the processSelectedFiles command has completed, no
\* file of the tree is checked, whatever the user toggled while it ran.
C34_NothingCheckedAfterCommand ==
    \A i \in Callers :
        proc[i].command.at = "completed" => vscode.checkedFiles = << >>

\* C35 (as claimed): when the packageName setting was empty as the command
\* read it and a project name was found in pubspec.yaml, the processor the
\* command built has that name as its packageName.
C35_ProcessorGetsDetectedName ==
    \A i \in Callers :
        (/\ proc[i].at # "off"
         /\ proc[i].command.packageName = ""
         /\ proc[i].command.flutterProjectName # "") =>
            proc[i].packageName = proc[i].command.flutterProjectName

(***************************************************************************)
(* Properties of the other languages' bundles (checked under Spec)         *)
(***************************************************************************)
\* The source bundle of invocation i, its backup and its temp files.
SourceSiblings(i) ==
    LET target == TargetArbPath(proc[i].langTag)
    IN {target, BackupPath(target)} \cup {TmpName(target, now) : now \in 0..MaxClock}

\* File q is as it was before the run.
AsBefore(q) == Exists(fs0, q) /\ Exists(fs, q) /\ fs[q] = fs0[q]

\* C36: as long as the file loop of an invocation is not over, also when it
\* has failed in it, every file of the bundle folder other than the source bundle, its
\* backup and its temp files is as it was before the run: none was created,
\* changed or removed; and before the invocation's first model call no file
\* at all has changed.
C36_OtherBundlesUntouchedBeforeTranslation ==
    \A i \in Callers :
        proc[i].at # "off" =>
            /\ proc[i].n <= Len(Files) =>
                  \A q \in DOMAIN fs \cup DOMAIN fs0 :
                      AsBefore(q) \/ Dirname(q) # ArbsFolder \/ q \in SourceSiblings(i)
            /\ proc[i].llmCalls = << >> => fs = fs0

\* C36 witness: process() failed in the second file's iteration, after the
\* source bundle was changed in the first; the folder holds another bundle.
C36_Witness ==
    \E i \in Callers :
        /\ proc[i].at = "failed" /\ proc[i].n = 2
        /\ proc[i].langTag = <<"en">>
        /\ Exists(fs0, EnPath) /\ fs[EnPath] # fs0[EnPath]
        /\ Exists(fs0, FrPath) /\ fs[FrPath] = fs0[FrPath]

(***************************************************************************)
(* Properties of concurrent writes (checked under SpecTwo)                 *)
(***************************************************************************)
\* The call of caller i has its temp file named and is not over.
HasTemp(i) == aw[i].at \in {"writing", "rename"}

\* C37 (as claimed): two atomicWrite calls on the same target that are in
\* flight at the same time never have the same temp file name.
C37_TempNamesDistinct ==
    \A i, j \in Callers :
        (i # j /\ HasTemp(i) /\ HasTemp(j) /\ aw[i].filePath = aw[j].filePath) =>
            aw[i].tmpName # aw[j].tmpName

=============================================================================
